---------------------------- MODULE Spec2Model ----------------------------
(***************************************************************************)
(* Model of the akshar-ime engine core: the romanization transducer       *)
(* (src/core/converter.rs), the learned-word trie (src/core/trie.rs), the  *)
(* SymSpell delete index (src/fuzzy/symspell.rs), the bigram context       *)
(* model (src/core/context.rs), the learning path (src/learning.rs), the   *)
(* suggestion pipeline (src/core/engine.rs) and the snapshot persistence   *)
(* (src/persistence.rs).                                                   *)
(*                                                                         *)
(* A Rust String is modelled as what it is: its sequence of UTF-8 bytes.   *)
(* Indices into strings are 0-based byte offsets as in the source; a byte  *)
(* offset is a char boundary when it is 0, the length, or the offset of a  *)
(* byte that is not a continuation byte (0x80..0xBF).  The operations of   *)
(* str/String that panic off a char boundary (slicing, String::remove) are *)
(* modelled with that panic.                                               *)
(***************************************************************************)
EXTENDS Integers, Sequences, FiniteSets, TLC

-----------------------------------------------------------------------------
(* Strings as UTF-8 byte sequences *)

\* str::is_char_boundary(i), i a 0-based byte offset
IsCharBoundary(s, i) ==
    \/ i = 0
    \/ i = Len(s)
    \/ /\ i > 0
       /\ i < Len(s)
       /\ ~(s[i + 1] >= 128 /\ s[i + 1] <= 191)

\* char::len_utf8 of the char whose lead byte is b
Utf8Width(b) ==
    IF b < 128 THEN 1 ELSE IF b < 224 THEN 2 ELSE IF b < 240 THEN 3 ELSE 4

\* &s[from..] without the boundary check (callers check it)
StrFrom(s, from) == SubSeq(s, from + 1, Len(s))

\* &s[..to] without the boundary check (callers check it)
StrTo(s, to) == SubSeq(s, 1, to)

\* str::starts_with
StartsWith(s, p) == Len(s) >= Len(p) /\ StrTo(s, Len(p)) = p

\* str::ends_with
EndsWith(s, p) == Len(s) >= Len(p) /\ StrFrom(s, Len(s) - Len(p)) = p

\* Iterator::max over a non-empty set of integers
SetMax(S) == CHOOSE x \in S : \A y \in S : y <= x

\* every way to list the elements of a finite set (the iteration orders of a
\* std HashMap / HashSet, whose order is unspecified)
RECURSIVE Orderings(_)
Orderings(S) ==
    IF S = {} THEN { <<>> }
    ELSE UNION { { <<x>> \o rest : rest \in Orderings(S \ {x}) } : x \in S }

-----------------------------------------------------------------------------
(* core/converter.rs: the romanization tables.  Keys and values are the    *)
(* UTF-8 bytes of the source literals.                                     *)

consonants ==
    (<<107>> :> <<224,164,149>>) @@  \* "k" -> U+0915
    (<<107,104>> :> <<224,164,150>>) @@  \* "kh" -> U+0916
    (<<103>> :> <<224,164,151>>) @@  \* "g" -> U+0917
    (<<103,104>> :> <<224,164,152>>) @@  \* "gh" -> U+0918
    (<<110,103>> :> <<224,164,153>>) @@  \* "ng" -> U+0919
    (<<99,104>> :> <<224,164,154>>) @@  \* "ch" -> U+091A
    (<<99>> :> <<224,164,154>>) @@  \* "c" -> U+091A
    (<<99,104,104>> :> <<224,164,155>>) @@  \* "chh" -> U+091B
    (<<120>> :> <<224,164,155>>) @@  \* "x" -> U+091B
    (<<106>> :> <<224,164,156>>) @@  \* "j" -> U+091C
    (<<106,104>> :> <<224,164,157>>) @@  \* "jh" -> U+091D
    (<<110,121>> :> <<224,164,158>>) @@  \* "ny" -> U+091E
    (<<106,110,121>> :> <<224,164,156,224,165,141,224,164,158>>) @@  \* "jny" -> U+091C U+094D U+091E
    (<<84>> :> <<224,164,159>>) @@  \* "T" -> U+091F
    (<<84,104>> :> <<224,164,160>>) @@  \* "Th" -> U+0920
    (<<68>> :> <<224,164,161>>) @@  \* "D" -> U+0921
    (<<68,104>> :> <<224,164,162>>) @@  \* "Dh" -> U+0922
    (<<78>> :> <<224,164,163>>) @@  \* "N" -> U+0923
    (<<116>> :> <<224,164,164>>) @@  \* "t" -> U+0924
    (<<116,104>> :> <<224,164,165>>) @@  \* "th" -> U+0925
    (<<100>> :> <<224,164,166>>) @@  \* "d" -> U+0926
    (<<100,104>> :> <<224,164,167>>) @@  \* "dh" -> U+0927
    (<<110>> :> <<224,164,168>>) @@  \* "n" -> U+0928
    (<<112>> :> <<224,164,170>>) @@  \* "p" -> U+092A
    (<<112,104>> :> <<224,164,171>>) @@  \* "ph" -> U+092B
    (<<98>> :> <<224,164,172>>) @@  \* "b" -> U+092C
    (<<98,104>> :> <<224,164,173>>) @@  \* "bh" -> U+092D
    (<<109>> :> <<224,164,174>>) @@  \* "m" -> U+092E
    (<<121>> :> <<224,164,175>>) @@  \* "y" -> U+092F
    (<<114>> :> <<224,164,176>>) @@  \* "r" -> U+0930
    (<<108>> :> <<224,164,178>>) @@  \* "l" -> U+0932
    (<<119>> :> <<224,164,181>>) @@  \* "w" -> U+0935
    (<<118>> :> <<224,164,181>>) @@  \* "v" -> U+0935
    (<<115,104>> :> <<224,164,182>>) @@  \* "sh" -> U+0936
    (<<83>> :> <<224,164,183>>) @@  \* "S" -> U+0937
    (<<115>> :> <<224,164,184>>) @@  \* "s" -> U+0938
    (<<104>> :> <<224,164,185>>) @@  \* "h" -> U+0939
    (<<107,115,104>> :> <<224,164,149,224,165,141,224,164,183>>) @@  \* "ksh" -> U+0915 U+094D U+0937
    (<<107,83,104>> :> <<224,164,149,224,165,141,224,164,183>>) @@  \* "kSh" -> U+0915 U+094D U+0937
    (<<116,114,97>> :> <<224,164,164,224,165,141,224,164,176>>) @@  \* "tra" -> U+0924 U+094D U+0930
    (<<116,82>> :> <<224,164,164,224,165,141,224,164,176>>) @@  \* "tR" -> U+0924 U+094D U+0930
    (<<106,110,121,97>> :> <<224,164,156,224,165,141,224,164,158>>) @@  \* "jnya" -> U+091C U+094D U+091E
    (<<71,89>> :> <<224,164,156,224,165,141,224,164,158>>) @@  \* "GY" -> U+091C U+094D U+091E
    (<<113>> :> <<224,164,149,224,164,188>>) @@  \* "q" -> U+0915 U+093C
    (<<75>> :> <<224,164,150,224,164,188>>) @@  \* "K" -> U+0916 U+093C
    (<<71>> :> <<224,164,151,224,164,188>>) @@  \* "G" -> U+0917 U+093C
    (<<122>> :> <<224,164,156,224,164,188>>) @@  \* "z" -> U+091C U+093C
    (<<90>> :> <<224,164,157,224,164,188>>) @@  \* "Z" -> U+091D U+093C
    (<<82,104>> :> <<224,164,162,224,164,188>>) @@  \* "Rh" -> U+0922 U+093C
    (<<82,102>> :> <<224,164,161,224,164,188>>) @@  \* "Rf" -> U+0921 U+093C
    (<<102>> :> <<224,164,171,224,164,188>>) @@  \* "f" -> U+092B U+093C
    (<<76>> :> <<224,164,179>>) @@  \* "L" -> U+0933
    (<<110,78>> :> <<224,164,169>>) @@  \* "nN" -> U+0929
    (<<114,82>> :> <<224,164,177>>) @@  \* "rR" -> U+0931
    (<<108,76>> :> <<224,164,180>>) @@  \* "lL" -> U+0934
    (<<94,94>> :> <<226,128,140>>) @@  \* "^^" -> U+200C
    (<<94,95>> :> <<226,128,141>>)  \* "^_" -> U+200D

vowels ==
    (<<97>> :> << <<224,164,133>>, <<>> >>) @@  \* "a" -> (U+0905, empty)
    (<<97,97>> :> << <<224,164,134>>, <<224,164,190>> >>) @@  \* "aa" -> (U+0906, U+093E)
    (<<65>> :> << <<224,164,134>>, <<224,164,190>> >>) @@  \* "A" -> (U+0906, U+093E)
    (<<105>> :> << <<224,164,135>>, <<224,164,191>> >>) @@  \* "i" -> (U+0907, U+093F)
    (<<105,105>> :> << <<224,164,136>>, <<224,165,128>> >>) @@  \* "ii" -> (U+0908, U+0940)
    (<<101,101>> :> << <<224,164,136>>, <<224,165,128>> >>) @@  \* "ee" -> (U+0908, U+0940)
    (<<73>> :> << <<224,164,136>>, <<224,165,128>> >>) @@  \* "I" -> (U+0908, U+0940)
    (<<117>> :> << <<224,164,137>>, <<224,165,129>> >>) @@  \* "u" -> (U+0909, U+0941)
    (<<117,117>> :> << <<224,164,138>>, <<224,165,130>> >>) @@  \* "uu" -> (U+090A, U+0942)
    (<<111,111>> :> << <<224,164,138>>, <<224,165,130>> >>) @@  \* "oo" -> (U+090A, U+0942)
    (<<85>> :> << <<224,164,138>>, <<224,165,130>> >>) @@  \* "U" -> (U+090A, U+0942)
    (<<101>> :> << <<224,164,143>>, <<224,165,135>> >>) @@  \* "e" -> (U+090F, U+0947)
    (<<97,105>> :> << <<224,164,144>>, <<224,165,136>> >>) @@  \* "ai" -> (U+0910, U+0948)
    (<<97,101>> :> << <<224,164,144>>, <<224,165,136>> >>) @@  \* "ae" -> (U+0910, U+0948)
    (<<111>> :> << <<224,164,147>>, <<224,165,139>> >>) @@  \* "o" -> (U+0913, U+094B)
    (<<97,117>> :> << <<224,164,148>>, <<224,165,140>> >>) @@  \* "au" -> (U+0914, U+094C)
    (<<97,111>> :> << <<224,164,148>>, <<224,165,140>> >>) @@  \* "ao" -> (U+0914, U+094C)
    (<<114,105>> :> << <<224,164,139>>, <<224,165,131>> >>) @@  \* "ri" -> (U+090B, U+0943)
    (<<82>> :> << <<224,164,139>>, <<224,165,131>> >>) @@  \* "R" -> (U+090B, U+0943)
    (<<114,105,105>> :> << <<224,165,160>>, <<224,165,132>> >>) @@  \* "rii" -> (U+0960, U+0944)
    (<<82,82>> :> << <<224,165,160>>, <<224,165,132>> >>) @@  \* "RR" -> (U+0960, U+0944)
    (<<114,73>> :> << <<224,165,160>>, <<224,165,132>> >>) @@  \* "rI" -> (U+0960, U+0944)
    (<<108,105>> :> << <<224,164,140>>, <<224,165,162>> >>) @@  \* "li" -> (U+090C, U+0962)
    (<<76,94>> :> << <<224,164,140>>, <<224,165,162>> >>) @@  \* "L^" -> (U+090C, U+0962)
    (<<108,105,105>> :> << <<224,165,161>>, <<224,165,163>> >>) @@  \* "lii" -> (U+0961, U+0963)
    (<<76,76>> :> << <<224,165,161>>, <<224,165,163>> >>) @@  \* "LL" -> (U+0961, U+0963)
    (<<108,73>> :> << <<224,165,161>>, <<224,165,163>> >>) @@  \* "lI" -> (U+0961, U+0963)
    (<<101,78>> :> << <<224,164,141>>, <<224,165,133>> >>) @@  \* "eN" -> (U+090D, U+0945)
    (<<69>> :> << <<224,164,141>>, <<224,165,133>> >>) @@  \* "E" -> (U+090D, U+0945)
    (<<111,78>> :> << <<224,164,145>>, <<224,165,137>> >>) @@  \* "oN" -> (U+0911, U+0949)
    (<<79>> :> << <<224,164,145>>, <<224,165,137>> >>) @@  \* "O" -> (U+0911, U+0949)
    (<<101,126>> :> << <<224,164,142>>, <<224,165,134>> >>) @@  \* "e~" -> (U+090E, U+0946)
    (<<111,126>> :> << <<224,164,146>>, <<224,165,138>> >>) @@  \* "o~" -> (U+0912, U+094A)
    (<<97,87>> :> << <<224,165,143>>, <<224,165,143>> >>) @@  \* "aW" -> (U+094F, U+094F)
    (<<117,101>> :> << <<224,164,137,224,165,135>>, <<224,165,150>> >>) @@  \* "ue" -> (U+0909 U+0947, U+0956)
    (<<117,117,101>> :> << <<224,164,137,224,165,134>>, <<224,165,151>> >>) @@  \* "uue" -> (U+0909 U+0946, U+0957)
    (<<77>> :> << <<224,164,133,224,164,130>>, <<224,164,130>> >>) @@  \* "M" -> (U+0905 U+0902, U+0902)
    (<<97,109>> :> << <<224,164,133,224,164,130>>, <<224,164,130>> >>) @@  \* "am" -> (U+0905 U+0902, U+0902)
    (<<65,110>> :> << <<224,164,133,224,164,130>>, <<224,164,130>> >>) @@  \* "An" -> (U+0905 U+0902, U+0902)
    (<<72>> :> << <<224,164,133,224,164,131>>, <<224,164,131>> >>) @@  \* "H" -> (U+0905 U+0903, U+0903)
    (<<97,104>> :> << <<224,164,133,224,164,131>>, <<224,164,131>> >>) @@  \* "ah" -> (U+0905 U+0903, U+0903)
    (<<97,72>> :> << <<224,164,133,224,164,131>>, <<224,164,131>> >>) @@  \* "aH" -> (U+0905 U+0903, U+0903)
    (<<126>> :> << <<224,164,133,224,164,129>>, <<224,164,129>> >>) @@  \* "~" -> (U+0905 U+0901, U+0901)
    (<<78,126>> :> << <<224,164,133,224,164,129>>, <<224,164,129>> >>) @@  \* "N~" -> (U+0905 U+0901, U+0901)
    (<<126,94>> :> << <<224,164,128>>, <<224,164,128>> >>) @@  \* "~^" -> (U+0900, U+0900)
    (<<101,94>> :> << <<224,164,143>>, <<224,165,149>> >>)  \* "e^" -> (U+090F, U+0955)

symbols ==
    (<<46>> :> <<224,165,164>>) @@  \* "." -> U+0964
    (<<46,46>> :> <<224,165,164,224,165,164>>) @@  \* ".." -> U+0964 U+0964
    (<<46,46,46>> :> <<46,46,46>>) @@  \* "..." -> U+002E U+002E U+002E
    (<<63>> :> <<63>>) @@  \* "?" -> U+003F
    (<<33>> :> <<33>>) @@  \* "!" -> U+0021
    (<<44>> :> <<44>>) @@  \* "," -> U+002C
    (<<59>> :> <<59>>) @@  \* ";" -> U+003B
    (<<58>> :> <<58>>) @@  \* ":" -> U+003A
    (<<79,77>> :> <<224,165,144>>) @@  \* "OM" -> U+0950
    (<<79,109>> :> <<224,165,144>>) @@  \* "Om" -> U+0950
    (<<65,85,77>> :> <<224,165,144>>) @@  \* "AUM" -> U+0950
    (<<39>> :> <<224,164,189>>) @@  \* "'" -> U+093D
    (<<64>> :> <<224,165,144>>) @@  \* "@" -> U+0950
    (<<48>> :> <<224,165,166>>) @@  \* "0" -> U+0966
    (<<49>> :> <<224,165,167>>) @@  \* "1" -> U+0967
    (<<50>> :> <<224,165,168>>) @@  \* "2" -> U+0968
    (<<51>> :> <<224,165,169>>) @@  \* "3" -> U+0969
    (<<52>> :> <<224,165,170>>) @@  \* "4" -> U+096A
    (<<53>> :> <<224,165,171>>) @@  \* "5" -> U+096B
    (<<54>> :> <<224,165,172>>) @@  \* "6" -> U+096C
    (<<55>> :> <<224,165,173>>) @@  \* "7" -> U+096D
    (<<56>> :> <<224,165,174>>) @@  \* "8" -> U+096E
    (<<57>> :> <<224,165,175>>) @@  \* "9" -> U+096F
    (<<124>> :> <<224,165,164>>) @@  \* "|" -> U+0964
    (<<124,124>> :> <<224,165,164,224,165,164>>) @@  \* "||" -> U+0964 U+0964
    (<<95>> :> <<224,165,141>>)  \* "_" -> U+094D

\* the ASCII bytes used by the code as literals
CH_a == <<97>>
STR_aa == <<97, 97>>
STR_ai == <<97, 105>>
STR_au == <<97, 117>>
STR_i == <<105>>
STR_u == <<117>>
STR_y == <<121>>
STR_r == <<114>>

HALANTA == <<224, 165, 141>>  \* "\u{094d}"

\* RomanizationEngine::new: the longest key of the three tables, in bytes
max_token_len ==
    SetMax({ Len(k) : k \in (DOMAIN consonants) \cup (DOMAIN vowels) \cup (DOMAIN symbols) })

NoMatch == [kind |-> "None"]
PanicMatch == [kind |-> "Panic"]

\* match_longest, the loop body for one length and the lengths below it:
\* symbols, then consonants, then vowels; &slice[0..len] panics off a boundary
RECURSIVE MatchFrom(_, _)
MatchFrom(slice, len) ==
    IF len = 0 THEN NoMatch
    ELSE IF ~IsCharBoundary(slice, len) THEN PanicMatch
    ELSE IF StrTo(slice, len) \in DOMAIN symbols
    THEN [kind |-> "Symbol", token |-> StrTo(slice, len),
          full |-> symbols[StrTo(slice, len)], matra |-> <<>>]
    ELSE IF StrTo(slice, len) \in DOMAIN consonants
    THEN [kind |-> "Consonant", token |-> StrTo(slice, len),
          full |-> consonants[StrTo(slice, len)], matra |-> <<>>]
    ELSE IF StrTo(slice, len) \in DOMAIN vowels
    THEN [kind |-> "Vowel", token |-> StrTo(slice, len),
          full |-> vowels[StrTo(slice, len)][1], matra |-> vowels[StrTo(slice, len)][2]]
    ELSE MatchFrom(slice, len - 1)

\* match_longest as it would be with the range 1..slice.len() instead of
\* 1..=slice.len()
match_longest_ExclusiveRange(slice) == MatchFrom(slice, Len(slice) - 1)

\* RomanizationEngine::match_longest
match_longest(slice) == MatchFrom(slice, Len(slice))

\* result.truncate(result.len() - HALANTA.len()) when result.ends_with(HALANTA)
DropHalanta(result) ==
    IF EndsWith(result, HALANTA) THEN StrTo(result, Len(result) - Len(HALANTA)) ELSE result

\* The transducer's configuration: the unread input, the output so far, the
\* State, and whether a slice panicked.
FstInit(roman) == [input |-> roman, result |-> <<>>, state |-> "Start", panic |-> FALSE]

\* transliterate_base, the loop body once match_longest(chunk) returned m
FstApply(c, m) ==
    IF m.kind = "Panic" THEN [c EXCEPT !.panic = TRUE]
    ELSE IF m.kind = "None" THEN
        \* next_char = input.chars().next().unwrap(), pushed back as its bytes
        [input |-> StrFrom(c.input, Utf8Width(c.input[1])),
         result |-> DropHalanta(c.result) \o StrTo(c.input, Utf8Width(c.input[1])),
         state |-> "Start", panic |-> FALSE]
    ELSE IF c.state \in {"Start", "Syllable"} THEN
        IF m.kind = "Consonant" THEN
            [input |-> StrFrom(c.input, Len(m.token)),
             result |-> c.result \o m.full \o HALANTA,
             state |-> "Halanta", panic |-> FALSE]
        ELSE IF m.kind = "Vowel" THEN
            [input |-> StrFrom(c.input, Len(m.token)),
             result |-> c.result \o m.full,
             state |-> "Syllable", panic |-> FALSE]
        ELSE
            [input |-> StrFrom(c.input, Len(m.token)),
             result |-> c.result \o m.full,
             state |-> "Start", panic |-> FALSE]
    ELSE \* State::Halanta
        IF m.kind = "Consonant" THEN
            IF m.token = STR_y \/ m.token = STR_r THEN
                [input |-> StrFrom(c.input, Len(m.token)),
                 result |-> c.result \o m.full,
                 state |-> "Halanta", panic |-> FALSE]
            ELSE
                [input |-> StrFrom(c.input, Len(m.token)),
                 result |-> c.result \o m.full \o HALANTA,
                 state |-> "Halanta", panic |-> FALSE]
        ELSE IF m.kind = "Vowel" THEN
            [input |-> StrFrom(c.input, Len(m.token)),
             result |-> DropHalanta(c.result) \o m.matra,
             state |-> "Syllable", panic |-> FALSE]
        ELSE
            [input |-> StrFrom(c.input, Len(m.token)),
             result |-> DropHalanta(c.result) \o m.full,
             state |-> "Start", panic |-> FALSE]

\* input.len().min(self.max_token_len)
ChunkLen(input) == IF Len(input) < max_token_len THEN Len(input) ELSE max_token_len

\* one iteration of the while loop of transliterate_base; the chunk slice
\* &input[..n] panics off a char boundary
FstStep(c) ==
    IF ~IsCharBoundary(c.input, ChunkLen(c.input)) THEN [c EXCEPT !.panic = TRUE]
    ELSE FstApply(c, match_longest(StrTo(c.input, ChunkLen(c.input))))

\* the while loop of transliterate_base
RECURSIVE FstRun(_)
FstRun(c) ==
    IF c.panic \/ c.input = <<>> THEN c ELSE FstRun(FstStep(c))

\* transliterate_base after the loop, from its final configuration c
FstFinish(c, force_schwa_deletion) ==
    IF c.panic THEN [panic |-> TRUE, text |-> <<>>]
    ELSE [panic |-> FALSE,
          text |-> IF force_schwa_deletion THEN DropHalanta(c.result) ELSE c.result]

\* transliterate_base: [panic, text]
transliterate_base(roman, force_schwa_deletion) ==
    FstFinish(FstRun(FstInit(roman)), force_schwa_deletion)

transliterate_primary(roman) ==
    IF roman = <<>> THEN [panic |-> FALSE, text |-> <<>>]
    ELSE transliterate_base(roman, TRUE)

\* x as a one-element set unless it equals primary: `if variant != primary
\* { candidates.insert(variant); }`
Unless(primary, variant) == IF variant # primary THEN {variant} ELSE {}

\* generate_candidates, the "medial vowel promotion" loop once
\* match_longest(temp_input) returned m: the variant it inserts, as a set with
\* at most one element.  The loop runs only after transliterate_primary(roman)
\* returned, so the input is ASCII here.
RECURSIVE PromotionVariant(_, _, _), PromotionStep(_, _, _, _)
PromotionStep(temp_input, prefix, primary, m) ==
    IF m.kind = "None" \/ m.kind = "Panic"
    THEN PromotionVariant(StrFrom(temp_input, 1), prefix \o StrTo(temp_input, 1), primary)
    ELSE IF m.kind = "Consonant"
            /\ StartsWith(StrFrom(temp_input, Len(m.token)), CH_a)
            /\ ~StartsWith(StrFrom(temp_input, Len(m.token)), STR_aa)
    THEN Unless(primary,
                transliterate_primary(prefix \o m.token \o CH_a
                                      \o StrFrom(temp_input, Len(m.token))).text)
    ELSE PromotionVariant(StrFrom(temp_input, Len(m.token)), prefix \o m.token, primary)

\* generate_candidates, the "medial vowel promotion" loop
PromotionVariant(temp_input, prefix, primary) ==
    IF temp_input = <<>> THEN {}
    ELSE PromotionStep(temp_input, prefix, primary, match_longest(temp_input))

\* find_last_vowel_boundary: the largest i in 1..len-1 whose suffix is a vowel
\* key, as a set with at most one element (None = {})
LargestOf(hits) == IF hits = {} THEN {} ELSE { SetMax(hits) }
find_last_vowel_boundary(roman) ==
    LargestOf({ i \in 1..(Len(roman) - 1) : StrFrom(roman, i) \in DOMAIN vowels })

\* generate_candidates: the HashSet `candidates` built by the heuristics
\* (the primary included), for a non-empty, non-symbol, ASCII roman whose
\* primary transliteration is `primary`
candidate_set(roman, primary) ==
    {primary}
    \cup (IF EndsWith(roman, CH_a) /\ ~EndsWith(roman, STR_aa)
          THEN Unless(primary, transliterate_base(roman, FALSE).text)
          ELSE {})
    \cup PromotionVariant(roman, <<>>, primary)
    \cup (IF EndsWith(roman, STR_ai) /\ Len(roman) > 2
          THEN Unless(primary,
                      transliterate_primary(StrTo(roman, Len(roman) - 2) \o STR_aa).text
                      \o vowels[STR_i][1])
          ELSE {})
    \cup (IF EndsWith(roman, STR_au) /\ Len(roman) > 2
          THEN Unless(primary,
                      transliterate_primary(StrTo(roman, Len(roman) - 2) \o STR_aa).text
                      \o vowels[STR_u][1])
          ELSE {})
    \cup (IF StartsWith(roman, STR_aa) /\ Len(roman) > 2
             /\ StrFrom(roman, 2) \in DOMAIN vowels
          THEN Unless(primary, vowels[STR_aa][1] \o vowels[StrFrom(roman, 2)][1])
          ELSE {})
    \cup UNION { Unless(primary,
                        transliterate_primary(StrTo(roman, pos)).text
                        \o vowels[StrFrom(roman, pos)][1])
                 : pos \in find_last_vowel_boundary(roman) }

\* generate_candidates after `let primary = self.transliterate_primary(roman)`
\* returned p
CandidatesAfterPrimary(roman, p) ==
    IF p.panic THEN [panic |-> TRUE, lists |-> {}]
    ELSE [panic |-> FALSE,
          lists |-> { <<p.text>> \o rest
                      : rest \in Orderings(candidate_set(roman, p.text) \ {p.text}) }]

\* generate_candidates: [panic, lists], lists being the possible return
\* values: the primary first, then the other members of `candidates` in the
\* HashSet's iteration order
generate_candidates(roman) ==
    IF roman = <<>> THEN [panic |-> FALSE, lists |-> { <<>> }]
    ELSE IF roman \in DOMAIN symbols THEN [panic |-> FALSE, lists |-> { <<symbols[roman]>> }]
    ELSE CandidatesAfterPrimary(roman, transliterate_primary(roman))

-----------------------------------------------------------------------------
(* core/types.rs, core/trie.rs: the metadata store and the trie.           *)
(* Option<T> is modelled as a sequence of length 0 (None) or 1 (Some).     *)

None == <<>>
Some(v) == <<v>>

\* the empty HashMap: a function with the empty domain
EmptyMap == [k \in {} |-> 0]

\* BuilderNode::new
NewNode == [children |-> EmptyMap, word_id |-> None, max_freq_in_subtree |-> 0]

\* HashMap::get as an Option, for a map modelled as a function
MapGet(map, key) == IF key \in DOMAIN map THEN Some(map[key]) ELSE None

\* HashMap::insert on a map modelled as a function
MapPut(map, key, val) ==
    [k \in (DOMAIN map) \cup {key} |-> IF k = key THEN val ELSE map[k]]

\* TrieBuilder::find_word_id_by_nepali: position of the first match
find_word_id_by_nepali(metadata, nepali) ==
    LET hits == { i \in 1..Len(metadata) : metadata[i].nepali = nepali } IN
    IF hits = {} THEN None
    ELSE Some((CHOOSE i \in hits : \A j \in hits : i <= j) - 1)

\* get_or_create_metadata as it would be without the lookup of an existing
\* entry: every call pushes
get_or_create_metadata_AlwaysPush(metadata, nepali) ==
    [metadata |-> Append(metadata, [nepali |-> nepali, frequency |-> 0, variants |-> {}]),
     id |-> Len(metadata)]

\* TrieBuilder::get_or_create_metadata: [metadata, id]
get_or_create_metadata(metadata, nepali) ==
    LET found == find_word_id_by_nepali(metadata, nepali) IN
    IF found # None THEN [metadata |-> metadata, id |-> found[1]]
    ELSE [metadata |-> Append(metadata, [nepali |-> nepali, frequency |-> 0, variants |-> {}]),
          id |-> Len(metadata)]

\* metadata_store[id] and nodes[idx], the source's 0-based indexing
MetaAt(metadata, id) == metadata[id + 1]
NodeAt(nodes, idx) == nodes[idx + 1]

\* TrieBuilder::insert, first loop: walk the bytes of key from node_idx,
\* creating missing nodes; [nodes, path]
RECURSIVE InsertWalk(_, _, _, _)
InsertWalk(nodes, node_idx, key, path) ==
    IF key = <<>> THEN [nodes |-> nodes, path |-> path]
    ELSE LET byte == key[1]
             hit == MapGet(NodeAt(nodes, node_idx).children, byte)
         IN
         IF hit # None
         THEN InsertWalk(nodes, hit[1], Tail(key), Append(path, hit[1]))
         ELSE LET new_node_id == Len(nodes)
                  pushed == Append(nodes, NewNode)
                  linked == [pushed EXCEPT ![node_idx + 1].children =
                                 MapPut(@, byte, new_node_id)]
              IN InsertWalk(linked, new_node_id, Tail(key), Append(path, new_node_id))

\* the value the propagation loop computes for node idx
RecomputedMax(nodes, metadata, idx) ==
    LET node == NodeAt(nodes, idx)
        own == IF node.word_id # None THEN MetaAt(metadata, node.word_id[1]).frequency ELSE 0
    IN SetMax({own} \cup { NodeAt(nodes, node.children[b]).max_freq_in_subtree
                           : b \in DOMAIN node.children })

\* TrieBuilder::insert, second loop: refresh max_freq_in_subtree along the
\* path leaf-first, breaking at the first node whose value does not grow
RECURSIVE Propagate(_, _, _)
Propagate(nodes, metadata, rev_path) ==
    IF rev_path = <<>> THEN nodes
    ELSE LET idx == rev_path[1]
             max_freq == RecomputedMax(nodes, metadata, idx)
         IN
         IF max_freq > NodeAt(nodes, idx).max_freq_in_subtree
         THEN Propagate([nodes EXCEPT ![idx + 1].max_freq_in_subtree = max_freq],
                        metadata, Tail(rev_path))
         ELSE nodes

Reverse(s) == [i \in 1..Len(s) |-> s[Len(s) + 1 - i]]

\* TrieBuilder::insert(key, word_id, _frequency): the new nodes
TrieInsert(nodes, metadata, key, word_id) ==
    LET w == InsertWalk(nodes, 0, key, <<0>>)
        last_idx == w.path[Len(w.path)]
        marked == [w.nodes EXCEPT ![last_idx + 1].word_id = Some(word_id)]
    IN Propagate(marked, metadata, Reverse(w.path))

\* get_top_k_suggestions, the navigation loop: Some(node) or None
RECURSIVE Navigate(_, _, _)
Navigate(nodes, node_idx, prefix) ==
    IF prefix = <<>> THEN Some(node_idx)
    ELSE LET hit == MapGet(NodeAt(nodes, node_idx).children, prefix[1]) IN
         IF hit = None THEN None ELSE Navigate(nodes, hit[1], Tail(prefix))

\* Ord on (u64, WordId) tuples
TupleLeq(a, b) == a[1] < b[1] \/ (a[1] = b[1] /\ a[2] <= b[2])

\* std BinaryHeap<(u64, WordId)> is a max-heap; it is modelled by its
\* contents in ascending order, so peek() is the last element.
HeapPush(heap, e) ==
    LET below == SelectSeq(heap, LAMBDA x : TupleLeq(x, e))
        above == SelectSeq(heap, LAMBDA x : ~TupleLeq(x, e))
    IN below \o <<e>> \o above
HeapPeek(heap) == heap[Len(heap)]
HeapPop(heap) == SubSeq(heap, 1, Len(heap) - 1)

PanicHeap == [panic |-> TRUE, heap |-> <<>>]
OkHeap(h) == [panic |-> FALSE, heap |-> h]

\* dfs_search, the terminal check of one node: peek().unwrap() panics on an
\* empty heap
DfsTerminal(nodes, metadata, node_idx, k, heap) ==
    LET node == NodeAt(nodes, node_idx) IN
    IF node.word_id = None THEN OkHeap(heap)
    ELSE LET id == node.word_id[1]
             freq == MetaAt(metadata, id).frequency
         IN
         IF Len(heap) < k THEN OkHeap(HeapPush(heap, <<freq, id>>))
         ELSE IF heap = <<>> THEN PanicHeap
         ELSE IF freq > HeapPeek(heap)[1] THEN OkHeap(HeapPush(HeapPop(heap), <<freq, id>>))
         ELSE OkHeap(heap)

\* dfs_search: the set of outcomes over the iteration orders of
\* node.children.values().  min_freq_in_heap is read once, before the loop.
RECURSIVE DfsSearch(_, _, _, _, _), DfsChildren(_, _, _, _, _, _)
DfsSearch(nodes, metadata, node_idx, k, heap) ==
    LET t == DfsTerminal(nodes, metadata, node_idx, k, heap) IN
    IF t.panic THEN {PanicHeap}
    ELSE IF Len(t.heap) = k /\ t.heap = <<>> THEN {PanicHeap}
    ELSE LET min_freq_in_heap == IF Len(t.heap) = k THEN HeapPeek(t.heap)[1] ELSE 0
             node == NodeAt(nodes, node_idx)
             kids == { node.children[b] : b \in DOMAIN node.children }
         IN DfsChildren(nodes, metadata, kids, k, min_freq_in_heap, t)

\* the for loop over the children still to visit, from outcome `cur`
DfsChildren(nodes, metadata, todo, k, min_freq_in_heap, cur) ==
    IF cur.panic THEN {PanicHeap}
    ELSE IF todo = {} THEN {cur}
    ELSE UNION {
        IF NodeAt(nodes, child_idx).max_freq_in_subtree > min_freq_in_heap
        THEN UNION { DfsChildren(nodes, metadata, todo \ {child_idx}, k, min_freq_in_heap, nxt)
                     : nxt \in DfsSearch(nodes, metadata, child_idx, k, cur.heap) }
        ELSE DfsChildren(nodes, metadata, todo \ {child_idx}, k, min_freq_in_heap, cur)
        : child_idx \in todo }

\* get_top_k_suggestions: the set of outcomes [panic, list], list a sequence
\* of <<word_id, freq>> in descending heap order
get_top_k_suggestions(nodes, metadata, prefix, k) ==
    LET start == Navigate(nodes, 0, prefix) IN
    IF start = None THEN { [panic |-> FALSE, list |-> <<>>] }
    ELSE { IF o.panic THEN [panic |-> TRUE, list |-> <<>>]
           ELSE [panic |-> FALSE,
                 list |-> [i \in 1..Len(o.heap) |->
                              <<o.heap[Len(o.heap) + 1 - i][2], o.heap[Len(o.heap) + 1 - i][1]>>]]
           : o \in DfsSearch(nodes, metadata, start[1], k, <<>>) }

-----------------------------------------------------------------------------
(* fuzzy/symspell.rs *)

MAX_EDIT_DISTANCE == 2
CONTEXT_WINDOW_SIZE == 3
LITERAL_BASE_SCORE == 1
PRIMARY_LITERAL_SCORE == 2

\* String::remove(i) for a char boundary i < len: the string without the
\* char that starts at byte i
StringRemove(s, i) == StrTo(s, i) \o StrFrom(s, i + Utf8Width(s[i + 1]))

\* generate_edits, whether one round of the deletion loop over the strings
\* of `current` panics: String::remove(i) panics when i is not a char
\* boundary, and i runs over every byte offset 0..edit.len()
RoundPanics(current) ==
    \E edit \in current : \E i \in 0..(Len(edit) - 1) : ~IsCharBoundary(edit, i)

\* generate_edits, the strings one round produces (when it does not panic)
RoundEdits(current) ==
    UNION { { StringRemove(edit, i) : i \in 0..(Len(edit) - 1) } : edit \in current }

\* generate_edits, the loop `for _ in 0..max_edit_distance` from round n on:
\* [panic, edits]
RECURSIVE EditRounds(_, _, _)
EditRounds(edits, current_edits, n) ==
    IF n = 0 THEN [panic |-> FALSE, edits |-> edits]
    ELSE IF RoundPanics(current_edits) THEN [panic |-> TRUE, edits |-> {}]
    ELSE LET next_edits == RoundEdits(current_edits) IN
         EditRounds(edits \cup next_edits, next_edits, n - 1)

\* generate_edits as it would be with one round of deletions whatever
\* max_edit_distance is
generate_edits_OneRound(word, max_edit_distance) == EditRounds({word}, {word}, 1)

\* SymSpell::generate_edits: [panic, edits]
generate_edits(word, max_edit_distance) == EditRounds({word}, {word}, max_edit_distance)

\* add_word as it would be with `insert(edit, {word_id})` instead of
\* `entry(edit).or_default().insert(word_id)`
add_word_Overwrite(deletes, max_edit_distance, word, word_id) ==
    LET e == generate_edits(word, max_edit_distance) IN
    IF e.panic THEN [panic |-> TRUE, deletes |-> deletes]
    ELSE [panic |-> FALSE,
          deletes |-> [k \in (DOMAIN deletes) \cup e.edits |->
                          IF k \in e.edits THEN {word_id} ELSE deletes[k]]]

\* SymSpell::add_word on the deletes map: [panic, deletes]
add_word(deletes, max_edit_distance, word, word_id) ==
    LET e == generate_edits(word, max_edit_distance) IN
    IF e.panic THEN [panic |-> TRUE, deletes |-> deletes]
    ELSE [panic |-> FALSE,
          deletes |-> [k \in (DOMAIN deletes) \cup e.edits |->
                          IF k \in e.edits
                          THEN (IF k \in DOMAIN deletes THEN deletes[k] ELSE {}) \cup {word_id}
                          ELSE deletes[k]]]

\* SymSpell::lookup: [panic, ids]
lookup(deletes, max_edit_distance, input) ==
    LET exact == IF input \in DOMAIN deletes THEN deletes[input] ELSE {}
        e == generate_edits(input, max_edit_distance)
    IN
    IF e.panic THEN [panic |-> TRUE, ids |-> {}]
    ELSE [panic |-> FALSE,
          ids |-> exact \cup UNION { deletes[edit] : edit \in e.edits \cap DOMAIN deletes }]

-----------------------------------------------------------------------------
(* core/context.rs *)

\* add_word as it would be if the window stored the position of the word
\* counted from 1
context_add_word_CountsFromOne(window_size, history, bigrams, word_id) ==
    [history |-> Append(IF Len(history) = window_size THEN Tail(history) ELSE history,
                        word_id + 1),
     bigrams |-> IF history # <<>>
                 THEN MapPut(bigrams, <<history[Len(history)], word_id + 1>>, 1)
                 ELSE bigrams]

\* ContextModel::add_word: [history, bigrams]
context_add_word(window_size, history, bigrams, word_id) ==
    LET counted == IF history # <<>>
                   THEN LET key == <<history[Len(history)], word_id>> IN
                        MapPut(bigrams, key,
                               (IF key \in DOMAIN bigrams THEN bigrams[key] ELSE 0) + 1)
                   ELSE bigrams
        popped == IF Len(history) = window_size THEN Tail(history) ELSE history
    IN [history |-> Append(popped, word_id), bigrams |-> counted]

\* 2^n
RECURSIVE Pow2(_)
Pow2(n) == IF n = 0 THEN 1 ELSE 2 * Pow2(n - 1)

\* c^10
Pow10th(c) == c * c * c * c * c * c * c * c * c * c

\* ((bigram_count as f64).log2() * 10.0) as u64: the largest n with
\* 2^n <= bigram_count^10
RECURSIVE BoostFrom(_, _)
BoostFrom(c, n) == IF Pow2(n + 1) > Pow10th(c) THEN n ELSE BoostFrom(c, n + 1)
Boost(bigram_count) == BoostFrom(bigram_count, 0)

\* ContextModel::rerank_suggestions, the new score of one (word_id, score)
RerankedScore(history, bigrams, word_id, score) ==
    IF history = <<>> THEN score
    ELSE LET key == <<history[Len(history)], word_id>> IN
         IF key \in DOMAIN bigrams THEN score + Boost(bigrams[key]) ELSE score

-----------------------------------------------------------------------------
(* learning.rs *)

\* learn: `metadata.frequency += self.frequency_increment` (the increment is 1,
\* LearningEngine::new) and `metadata.variants.insert(roman)`
BumpFrequency_OnlyNewVariants(m, roman) ==
    [nepali |-> m.nepali,
     frequency |-> IF roman \in m.variants THEN m.frequency ELSE m.frequency + 1,
     variants |-> m.variants \cup {roman}]

BumpFrequency(m, roman) ==
    [nepali |-> m.nepali,
     frequency |-> m.frequency + 1,
     variants |-> m.variants \cup {roman}]

\* LearningEngine::learn on the three mutable components: [panic, trie_builder,
\* context_model, symspell].  A panic in SymSpell::add_word unwinds out of
\* learn and leaves every assignment made before it in place.
learn(trie_builder, context_model, symspell, roman, nepali) ==
    LET g == get_or_create_metadata(trie_builder.metadata_store, nepali)
        word_id == g.id
        old == MetaAt(g.metadata, word_id)
        is_new == roman \notin old.variants
        metadata == [g.metadata EXCEPT ![word_id + 1] = BumpFrequency(old, roman)]
        tb1 == [trie_builder EXCEPT !.metadata_store = metadata]
        a1 == IF is_new
              THEN add_word(symspell.deletes, symspell.max_edit_distance, roman, word_id)
              ELSE [panic |-> FALSE, deletes |-> symspell.deletes]
        a2 == IF is_new /\ ~a1.panic /\ Cardinality(MetaAt(metadata, word_id).variants) = 1
              THEN add_word(a1.deletes, symspell.max_edit_distance, nepali, word_id)
              ELSE a1
    IN
    IF a1.panic
    THEN [panic |-> TRUE, trie_builder |-> tb1, context_model |-> context_model,
          symspell |-> symspell]
    ELSE IF a2.panic
    THEN [panic |-> TRUE, trie_builder |-> tb1, context_model |-> context_model,
          symspell |-> [symspell EXCEPT !.deletes = a1.deletes]]
    ELSE LET c == context_add_word(context_model.window_size, context_model.history,
                                   context_model.bigrams, word_id)
         IN [panic |-> FALSE,
             trie_builder |-> [tb1 EXCEPT !.nodes =
                                  TrieInsert(trie_builder.nodes, metadata, roman, word_id)],
             context_model |-> [context_model EXCEPT !.history = c.history,
                                                     !.bigrams = c.bigrams],
             symspell |-> [symspell EXCEPT !.deletes = a2.deletes]]

-----------------------------------------------------------------------------
(* core/engine.rs *)

\* enum SuggestionSource in declaration order; derive(PartialOrd, Ord) orders
\* the variants by their position
SuggestionSource == <<"Literal", "PrimaryLiteral", "Fuzzy", "Trie">>
SourceRank(source) == CHOOSE i \in 1..Len(SuggestionSource) : SuggestionSource[i] = source

\* add_candidate as it would be if the larger score won whatever the source
add_candidate_LargerScoreWins(candidates, nepali, score, source) ==
    IF nepali \in DOMAIN candidates
    THEN IF score > candidates[nepali].score
         THEN MapPut(candidates, nepali, [score |-> score, source |-> source])
         ELSE candidates
    ELSE MapPut(candidates, nepali, [score |-> score, source |-> source])

\* the add_candidate closure of get_suggestions, on the `candidates` map
add_candidate(candidates, nepali, score, source) ==
    IF nepali \in DOMAIN candidates
    THEN LET existing == candidates[nepali] IN
         IF SourceRank(source) > SourceRank(existing.source)
         THEN MapPut(candidates, nepali, [score |-> score, source |-> source])
         ELSE IF source = existing.source /\ score > existing.score
         THEN MapPut(candidates, nepali, [score |-> score, source |-> existing.source])
         ELSE candidates
    ELSE MapPut(candidates, nepali, [score |-> score, source |-> source])

\* ImeEngine::new
NewEngine ==
    [trie_builder |-> [nodes |-> <<NewNode>>, metadata_store |-> <<>>],
     context_model |-> [window_size |-> CONTEXT_WINDOW_SIZE, history |-> <<>>,
                        bigrams |-> EmptyMap],
     symspell |-> [deletes |-> EmptyMap, max_edit_distance |-> MAX_EDIT_DISTANCE],
     dictionary_path |-> None]

\* get_suggestions, Stage 1: the trie results, in order
RECURSIVE AddTrie(_, _, _)
AddTrie(candidates, metadata, list) ==
    IF list = <<>> THEN candidates
    ELSE LET word_id == list[1][1]
             score == list[1][2]
         IN AddTrie(IF word_id < Len(metadata)
                    THEN add_candidate(candidates, MetaAt(metadata, word_id).nepali, score, "Trie")
                    ELSE candidates,
                    metadata, Tail(list))

\* Stage 2 score as it would be without the `saturating_sub(1)`
FuzzyScore_Frequency(frequency) == frequency

\* get_suggestions, Stage 2: `metadata.frequency.saturating_sub(1)`
FuzzyScore(frequency) == IF frequency >= 1 THEN frequency - 1 ELSE 0

\* get_suggestions, Stage 2: the fuzzy matches.  The ids of the HashSet are
\* distinct and so are their nepali keys, so the iteration order does not
\* change the map that results.
RECURSIVE AddFuzzy(_, _, _)
AddFuzzy(candidates, metadata, ids) ==
    IF ids = {} THEN candidates
    ELSE LET word_id == CHOOSE i \in ids : TRUE
             m == MetaAt(metadata, word_id)
             score == FuzzyScore(m.frequency)
         IN AddFuzzy(IF word_id < Len(metadata)
                     THEN add_candidate(candidates, m.nepali, score, "Fuzzy")
                     ELSE candidates,
                     metadata, ids \ {word_id})

\* get_suggestions, Stage 4: the literal candidates, in order
RECURSIVE AddLiteral(_, _)
AddLiteral(candidates, list) ==
    IF list = <<>> THEN candidates
    ELSE AddLiteral(add_candidate(candidates, list[1], LITERAL_BASE_SCORE, "Literal"),
                    Tail(list))

\* get_suggestions, Stage 5: the score of a candidate after the contextual
\* re-ranking has been written back
FinalScore(engine, candidates, nepali) ==
    LET id == find_word_id_by_nepali(engine.trie_builder.metadata_store, nepali) IN
    IF id = None THEN candidates[nepali].score
    ELSE RerankedScore(engine.context_model.history, engine.context_model.bigrams,
                       id[1], candidates[nepali].score)

\* the results of a stable sort by Reverse(score) of a vector that holds the
\* elements of S in an unspecified order (the order of HashMap::into_iter):
\* every listing of S with non-increasing scores
RECURSIVE SortedOrderings(_, _)
SortedOrderings(S, score) ==
    IF S = {} THEN { <<>> }
    ELSE LET top == SetMax({ score[x] : x \in S }) IN
         UNION { { <<x>> \o rest : rest \in SortedOrderings(S \ {x}, score) }
                 : x \in { y \in S : score[y] = top } }

\* truncate as it would be if it kept one element less than asked
Truncate_OneShort(list, n) == IF Len(list) >= n THEN SubSeq(list, 1, n - 1) ELSE list

\* Vec::truncate
Truncate(list, n) == IF Len(list) > n THEN SubSeq(list, 1, n) ELSE list

PanicSuggestions == [panic |-> TRUE, candidates |-> EmptyMap, result |-> <<>>]

\* get_suggestions, the end of Stage 5: sort_by_key(Reverse(score)) and
\* truncate(count), for the map `candidates` and the re-ranked scores `final`
Stage5Sort(candidates, final, count) ==
    { [panic |-> FALSE,
       candidates |-> candidates,
       result |-> Truncate([i \in 1..Len(o) |-> <<o[i], final[o[i]]>>], count)]
      : o \in SortedOrderings(DOMAIN candidates, final) }

\* get_suggestions, Stage 5
Stage5(engine, candidates, count) ==
    Stage5Sort(candidates,
               [n \in DOMAIN candidates |-> FinalScore(engine, candidates, n)],
               count)

\* get_suggestions, Stage 4, generate_candidates having returned
\* literal_candidates
Stage4(engine, candidates, count, literal_candidates) ==
    IF literal_candidates.panic THEN {PanicSuggestions}
    ELSE Stage5(engine,
                AddLiteral(candidates, CHOOSE l \in literal_candidates.lists : TRUE),
                count)

\* get_suggestions, Stage 3, transliterate_primary having returned
\* primary_nepali
Stage3(engine, prefix, candidates, count, primary_nepali) ==
    IF primary_nepali.panic THEN {PanicSuggestions}
    ELSE Stage4(engine,
                add_candidate(candidates, primary_nepali.text, PRIMARY_LITERAL_SCORE,
                              "PrimaryLiteral"),
                count, generate_candidates(prefix))

\* get_suggestions, Stage 2, symspell.lookup having returned fuzzy_matches
Stage2(engine, prefix, candidates, count, fuzzy_matches) ==
    IF fuzzy_matches.panic THEN {PanicSuggestions}
    ELSE Stage3(engine, prefix,
                AddFuzzy(candidates, engine.trie_builder.metadata_store, fuzzy_matches.ids),
                count, transliterate_primary(prefix))

\* get_suggestions, Stage 1, get_top_k_suggestions having returned t; the
\* outcomes keep t.list (the local trie_suggestions) beside the result
Stage1(engine, prefix, count, t) ==
    IF t.panic THEN { [panic |-> TRUE, trie |-> <<>>, candidates |-> EmptyMap, result |-> <<>>] }
    ELSE { [panic |-> o.panic, trie |-> IF o.panic THEN <<>> ELSE t.list,
            candidates |-> o.candidates, result |-> o.result]
           : o \in Stage2(engine, prefix,
                          AddTrie(EmptyMap, engine.trie_builder.metadata_store, t.list),
                          count,
                          lookup(engine.symspell.deletes, engine.symspell.max_edit_distance,
                                 prefix)) }

\* ImeEngine::get_suggestions: the set of outcomes [panic, trie, candidates,
\* result]; trie is the list Stage 1 got from the trie, candidates the map as
\* it stands after Stage 4 and result the returned list of <<nepali, score>>
get_suggestions(engine, prefix, count) ==
    IF prefix = <<>>
    THEN { [panic |-> FALSE, trie |-> <<>>, candidates |-> EmptyMap, result |-> <<>>] }
    ELSE UNION { Stage1(engine, prefix, count, t)
                 : t \in get_top_k_suggestions(engine.trie_builder.nodes,
                                               engine.trie_builder.metadata_store,
                                               prefix, count) }

\* the engine after get_suggestions as it would be if rerank_suggestions took
\* the last word with `history.pop_back()` instead of `history.back()`
SelfAfterGetSuggestions_PopsHistory(e) ==
    LET history == e.context_model.history IN
    IF history = <<>> THEN e
    ELSE [e EXCEPT !.context_model.history = SubSeq(history, 1, Len(history) - 1)]

\* the engine after get_suggestions: the method takes `&self`, and so do
\* the methods it calls on the trie, the index, the romanizer and the
\* context model
SelfAfterGetSuggestions(e) == e

-----------------------------------------------------------------------------
(* persistence.rs: SerializableState and its serde/bincode encoding.       *)
(* The blob is a sequence of elements: a fixed-width integer (u64, usize)  *)
(* is one element, a u8 and an Option tag are one element, a String is its *)
(* length and then its bytes, a collection (Vec, VecDeque, HashMap,        *)
(* HashSet) is its length and then its items, a map item being the key and *)
(* then the value, a struct or tuple is its fields in declaration order.   *)

\* the elements of a finite set in one order; `rev` picks between two of the
\* orders in which a HashMap or HashSet may be iterated
RECURSIVE SeqOfSet(_)
SeqOfSet(S) ==
    IF S = {} THEN <<>>
    ELSE LET x == CHOOSE y \in S : TRUE IN <<x>> \o SeqOfSet(S \ {x})
IterOrder(S, rev) == IF rev THEN Reverse(SeqOfSet(S)) ELSE SeqOfSet(S)

\* concatenation of a sequence of sequences
RECURSIVE Concat(_)
Concat(ss) == IF ss = <<>> THEN <<>> ELSE ss[1] \o Concat(Tail(ss))

EncString(s) == <<Len(s)>> \o s
EncOption(o) == IF o = None THEN <<0>> ELSE <<1, o[1]>>

\* BuilderNode
EncNode(node, rev) ==
    LET keys == IterOrder(DOMAIN node.children, rev) IN
    <<Len(keys)>> \o Concat([i \in 1..Len(keys) |-> <<keys[i], node.children[keys[i]]>>])
    \o EncOption(node.word_id) \o <<node.max_freq_in_subtree>>

\* WordMetadata
EncMetadata(m, rev) ==
    LET vs == IterOrder(m.variants, rev) IN
    EncString(m.nepali) \o <<m.frequency>>
    \o <<Len(vs)>> \o Concat([i \in 1..Len(vs) |-> EncString(vs[i])])

\* TrieBuilder
EncTrieBuilder(tb, rev) ==
    <<Len(tb.nodes)>> \o Concat([i \in 1..Len(tb.nodes) |-> EncNode(tb.nodes[i], rev)])
    \o <<Len(tb.metadata_store)>>
    \o Concat([i \in 1..Len(tb.metadata_store) |-> EncMetadata(tb.metadata_store[i], rev)])

\* ContextModel
EncContextModel(cm, rev) ==
    LET keys == IterOrder(DOMAIN cm.bigrams, rev) IN
    <<cm.window_size>> \o <<Len(cm.history)>> \o cm.history
    \o <<Len(keys)>>
    \o Concat([i \in 1..Len(keys) |-> <<keys[i][1], keys[i][2], cm.bigrams[keys[i]]>>])

\* SymSpell
EncSymSpell(sy, rev) ==
    LET keys == IterOrder(DOMAIN sy.deletes, rev) IN
    <<Len(keys)>>
    \o Concat([i \in 1..Len(keys) |->
                  LET ids == IterOrder(sy.deletes[keys[i]], rev) IN
                  EncString(keys[i]) \o <<Len(ids)>> \o ids])
    \o <<sy.max_edit_distance>>

\* bincode::serialize_into of the SerializableState built by save_to_disk
Serialize(engine, rev) ==
    EncTrieBuilder(engine.trie_builder, rev)
    \o EncContextModel(engine.context_model, rev)
    \o EncSymSpell(engine.symspell, rev)

\* A decoder takes the unread input and returns [ok, val, rest]; ok = FALSE is
\* bincode's error (here: the input ends too early, or a bad Option tag).
DecFail == [ok |-> FALSE, val |-> <<>>, rest |-> <<>>]
DecOk(v, rest) == [ok |-> TRUE, val |-> v, rest |-> rest]

DecInt(s) == IF s = <<>> THEN DecFail ELSE DecOk(s[1], Tail(s))

\* a String: its length and then that many bytes
DecString(s) ==
    IF s = <<>> \/ Len(s) - 1 < s[1] THEN DecFail
    ELSE DecOk(SubSeq(s, 2, s[1] + 1), SubSeq(s, s[1] + 2, Len(s)))

\* an Option<usize>: tag 0, or tag 1 and the value
DecOption(s) ==
    IF s = <<>> THEN DecFail
    ELSE IF s[1] = 0 THEN DecOk(None, Tail(s))
    ELSE IF s[1] = 1 /\ Len(s) >= 2 THEN DecOk(Some(s[2]), SubSeq(s, 3, Len(s)))
    ELSE DecFail

\* the HashMap collected from decoded <<key, value>> items; a later item
\* replaces an earlier one with the same key
RECURSIVE MapOfItems(_)
MapOfItems(items) ==
    IF items = <<>> THEN EmptyMap
    ELSE MapPut(MapOfItems(SubSeq(items, 1, Len(items) - 1)),
                items[Len(items)][1], items[Len(items)][2])

\* the HashSet collected from decoded items
SetOfItems(items) == { items[i] : i \in 1..Len(items) }

\* The decoders are driven by the declarations of the serialized types
\* (derive(Deserialize)): a kind is "int", "string", "option", a collection
\* of items of one kind, or a struct/tuple with its fields in order.
CollectionOf ==
    [ints |-> "int", strings |-> "string", pairs |-> "pair", triples |-> "triple",
     nodes |-> "node", metadatas |-> "metadata", buckets |-> "bucket"]

Layout ==
    [pair |-> <<"int", "int">>,                            \* (u8, usize)
     triple |-> <<"int", "int", "int">>,                   \* ((WordId, WordId), u64)
     node |-> <<"pairs", "option", "int">>,                \* BuilderNode
     metadata |-> <<"string", "int", "strings">>,          \* WordMetadata
     trie_builder |-> <<"nodes", "metadatas">>,            \* TrieBuilder
     context_model |-> <<"int", "ints", "triples">>,       \* ContextModel
     bucket |-> <<"string", "ints">>,                      \* (String, HashSet<WordId>)
     symspell |-> <<"buckets", "int">>,                    \* SymSpell
     state |-> <<"trie_builder", "context_model", "symspell">>]  \* SerializableState

\* the value of a struct or tuple from the decoded values v of its fields
Build(kind, v) ==
    CASE kind = "pair" -> v
      [] kind = "triple" -> << <<v[1], v[2]>>, v[3] >>
      [] kind = "node" ->
            [children |-> MapOfItems(v[1]), word_id |-> v[2], max_freq_in_subtree |-> v[3]]
      [] kind = "metadata" ->
            [nepali |-> v[1], frequency |-> v[2], variants |-> SetOfItems(v[3])]
      [] kind = "trie_builder" -> [nodes |-> v[1], metadata_store |-> v[2]]
      [] kind = "context_model" ->
            [window_size |-> v[1], history |-> v[2], bigrams |-> MapOfItems(v[3])]
      [] kind = "bucket" -> <<v[1], SetOfItems(v[2])>>
      [] kind = "symspell" -> [deletes |-> MapOfItems(v[1]), max_edit_distance |-> v[2]]
      [] kind = "state" -> [trie_builder |-> v[1], context_model |-> v[2], symspell |-> v[3]]

Built(kind, d) == IF d.ok THEN DecOk(Build(kind, d.val), d.rest) ELSE DecFail

RECURSIVE DecItem(_, _), DecItems(_, _, _, _), DecItemsNext(_, _, _, _),
          DecFields(_, _, _), DecFieldsNext(_, _, _)

\* n items of one kind read one after the other: val is their sequence
DecItems(kind, n, s, acc) ==
    IF n = 0 THEN DecOk(acc, s) ELSE DecItemsNext(kind, n, acc, DecItem(kind, s))
DecItemsNext(kind, n, acc, d) ==
    IF d.ok THEN DecItems(kind, n - 1, d.rest, Append(acc, d.val)) ELSE DecFail

\* the fields of a struct read one after the other: val is their sequence
DecFields(kinds, s, acc) ==
    IF kinds = <<>> THEN DecOk(acc, s) ELSE DecFieldsNext(kinds, acc, DecItem(kinds[1], s))
DecFieldsNext(kinds, acc, d) ==
    IF d.ok THEN DecFields(Tail(kinds), d.rest, Append(acc, d.val)) ELSE DecFail

\* a collection, its length n having been read
DecCollection(kind, n) ==
    IF n.ok THEN DecItems(CollectionOf[kind], n.val, n.rest, <<>>) ELSE DecFail

\* one value of the given kind
DecItem(kind, s) ==
    IF kind = "int" THEN DecInt(s)
    ELSE IF kind = "string" THEN DecString(s)
    ELSE IF kind = "option" THEN DecOption(s)
    ELSE IF kind \in DOMAIN CollectionOf THEN DecCollection(kind, DecInt(s))
    ELSE Built(kind, DecFields(Layout[kind], s, <<>>))

\* bincode::deserialize_from into SerializableState
Deserialize(blob) == DecItem("state", blob)

\* load_from_disk as it would be without `engine.symspell = state.symspell`
LoadedEngine_SymSpellNotRestored(state) ==
    IF ~state.ok THEN [ok |-> FALSE, engine |-> NewEngine]
    ELSE [ok |-> TRUE,
          engine |-> [NewEngine EXCEPT !.trie_builder = state.val.trie_builder,
                                       !.context_model = state.val.context_model]]

\* load_from_disk after deserialize_from returned `state`
LoadedEngine(state) ==
    IF ~state.ok THEN [ok |-> FALSE, engine |-> NewEngine]
    ELSE [ok |-> TRUE,
          engine |-> [NewEngine EXCEPT !.trie_builder = state.val.trie_builder,
                                       !.context_model = state.val.context_model,
                                       !.symspell = state.val.symspell]]

\* load_from_disk(path) on the file at path (None: File::open fails):
\* [ok, engine]; the engine is ImeEngine::new() with the three components
\* replaced
load_from_disk(file) ==
    IF file = None THEN [ok |-> FALSE, engine |-> NewEngine]
    ELSE LoadedEngine(Deserialize(file[1]))

\* from_file_or_new as it would be if the path were kept only for an engine
\* that was loaded
from_file_or_new_PathWhenLoaded(file, path) ==
    LET l == load_from_disk(file) IN
    [ok |-> l.ok,
     engine |-> IF l.ok THEN [l.engine EXCEPT !.dictionary_path = Some(path)]
                ELSE l.engine]

\* ImeEngine::from_file_or_new(path) on the file at path: [ok, engine], ok
\* telling whether load_from_disk returned Ok
from_file_or_new(file, path) ==
    LET l == load_from_disk(file) IN
    [ok |-> l.ok, engine |-> [l.engine EXCEPT !.dictionary_path = Some(path)]]

\* the path every host passes to from_file_or_new
DICTIONARY_PATH == "user_dictionary.bin"

\* the steps of save_to_disk at which the file system can fail:
\*   create_dir_all  fs::create_dir_all(parent_dir)?
\*   temp_file       NamedTempFile::new_in(parent_dir)?
\*   serialize       bincode::serialize_into(writer, &state) returns Err
\*   drop_flush      a write of the BufWriter's buffered bytes fails when the
\*                   BufWriter, moved into serialize_into, is dropped there;
\*                   BufWriter's Drop discards the error
\*   persist         temp_file.persist(path)?
SaveFaults == {"create_dir_all", "temp_file", "serialize", "drop_flush", "persist"}

\* how many elements of the blob reach the temp file when the flush of the
\* dropped BufWriter fails (a sample of the possible lengths)
TruncationPoints(blob) == {0, Len(blob) \div 2}

\* save_to_disk(engine, path) under `fault` ("none": every step succeeds):
\* [err, file], the Result and the file at path afterwards
save_to_disk(engine, file, fault, rev, cut) ==
    IF fault \in {"create_dir_all", "temp_file", "serialize", "persist"}
    THEN [err |-> TRUE, file |-> file]
    ELSE IF fault = "drop_flush"
    THEN [err |-> FALSE, file |-> Some(SubSeq(Serialize(engine, rev), 1, cut))]
    ELSE [err |-> FALSE, file |-> Some(Serialize(engine, rev))]
-----------------------------------------------------------------------------
(* bin/simulator.rs *)

\* the text the Space/Enter/Tab arm commits, given what
\* get_suggestions(preedit, 1) returned: the set of outcomes [panic, text]
to_commit(preedit, suggestions) ==
    IF suggestions.panic THEN { [panic |-> TRUE, text |-> <<>>] }
    ELSE IF suggestions.result # <<>>
    THEN { [panic |-> FALSE, text |-> suggestions.result[1][1]] }
    ELSE IF generate_candidates(preedit).panic THEN { [panic |-> TRUE, text |-> <<>>] }
    ELSE { [panic |-> FALSE, text |-> IF l = <<>> THEN <<>> ELSE l[1]]
           : l \in generate_candidates(preedit).lists }

\* handle_key_event(key_val, _, preedit, engine, stdout): the set of outcomes
\* [running, needs_update, engine, preedit, stdout, text, confirmed, panic,
\* err].  stdout_closed says that writeln!(stdout, ..) returns Err, which `?`
\* hands to main and main to the caller of the process.  A panic
\* unwinds through main, nothing catches it: the process ends with what it
\* had written so far.  text is to_commit, confirmed the arguments of the
\* user_confirms call made.
handle_key_event(key_val, preedit, engine, stdout, stdout_closed) ==
    IF key_val \in {32, 65293, 65289}
    THEN IF preedit # <<>>
         THEN { IF c.panic
                THEN [running |-> FALSE, needs_update |-> TRUE, engine |-> engine,
                      preedit |-> preedit, stdout |-> stdout, text |-> <<>>,
                      confirmed |-> None, panic |-> TRUE, err |-> FALSE]
                ELSE IF c.text = <<>>
                THEN [running |-> TRUE, needs_update |-> TRUE, engine |-> engine,
                      preedit |-> <<>>, stdout |-> stdout, text |-> <<>>,
                      confirmed |-> None, panic |-> FALSE, err |-> FALSE]
                ELSE IF stdout_closed
                THEN [running |-> FALSE, needs_update |-> TRUE, engine |-> engine,
                      preedit |-> preedit, stdout |-> stdout, text |-> c.text,
                      confirmed |-> None, panic |-> FALSE, err |-> TRUE]
                ELSE LET l == learn(engine.trie_builder, engine.context_model,
                                    engine.symspell, preedit, c.text)
                     IN [running |-> ~l.panic, needs_update |-> TRUE,
                         engine |-> [engine EXCEPT !.trie_builder = l.trie_builder,
                                                   !.context_model = l.context_model,
                                                   !.symspell = l.symspell],
                         preedit |-> IF l.panic THEN preedit ELSE <<>>,
                         stdout |-> Append(stdout, c.text), text |-> c.text,
                         confirmed |-> Some(<<preedit, c.text>>),
                         panic |-> l.panic, err |-> FALSE]
                : c \in UNION { to_commit(preedit, s)
                                : s \in get_suggestions(engine, preedit, 1) } }
         ELSE { [running |-> ~stdout_closed, needs_update |-> TRUE, engine |-> engine,
                 preedit |-> preedit,
                 stdout |-> IF stdout_closed THEN stdout ELSE Append(stdout, <<32>>),
                 text |-> <<>>, confirmed |-> None, panic |-> FALSE,
                 err |-> stdout_closed] }
    ELSE { [running |-> TRUE, engine |-> engine, stdout |-> stdout, text |-> <<>>,
            confirmed |-> None, panic |-> FALSE, err |-> FALSE,
            needs_update |-> key_val \in {65288, 65307} \cup (33..126),
            preedit |-> IF key_val = 65288
                        THEN SubSeq(preedit, 1, Len(preedit) - 1)
                        ELSE IF key_val = 65307 THEN <<>>
                        ELSE IF key_val \in 65..90 THEN Append(preedit, key_val + 32)
                        ELSE IF key_val \in 33..126 THEN Append(preedit, key_val)
                        ELSE preedit] }


-----------------------------------------------------------------------------
(* The engine as a state machine.  One step is one call that a host makes  *)
(* on the engine (c_api.rs, bin/main.rs, bin/simulator.rs).  A call that   *)
(* panics is a step too: the host's catch_unwind (c_api.rs) stops the      *)
(* unwinding, so what the call had written so far is the state the next    *)
(* call sees.                                                              *)

VARIABLES
    engine,   \* the ImeEngine: trie_builder, context_model, symspell, dictionary_path
    disk,     \* the file at the dictionary path: None, or Some(blob)
    log,      \* history: the <<roman, nepali>> of every user_confirms call
              \* with non-empty arguments made on this dictionary
    disk_log, \* history: the value of log when the file was last replaced
    last,     \* history: the last call, its arguments and what it returned
    writer,   \* the nepali_ime_confirm_word call in flight on another thread:
              \* None, or Some of its arguments and the statement of learn it
              \* is at
    host      \* the simulator process of bin/simulator.rs: its preedit, the
              \* texts of the COMMIT_TEXT lines it wrote, and whether it runs

vars == <<engine, disk, log, disk_log, last, writer, host>>

\* Bounds of the model: the confirmations in a behaviour of SpecLearn, the
\* confirmations in a behaviour of Spec, the largest count asked for
MaxConfirms == 3
MaxSuggestConfirms == 2
MaxCount == 2

\* the strings the model confirms and queries
R_k == <<107>>                               \* "k"
R_ka == <<107, 97>>                          \* "ka"
R_dash == <<45>>                             \* "-"
N_ka == <<224, 164, 149>>                    \* U+0915
N_kaa == <<224, 164, 149, 224, 164, 190>>    \* U+0915 U+093E
N_dash == <<45>>                             \* "-", what "-" transliterates to

\* main of bin/simulator.rs before the first line of input: `preedit` is
\* String::new(), nothing was written to stdout
NewHost == [preedit |-> <<>>, stdout |-> <<>>, running |-> TRUE]

Romans == {<<>>, R_k, R_ka, R_dash}
Words == {<<>>, N_ka, N_kaa, N_dash}
Prefixes == {<<>>, R_k, R_ka, R_dash, N_ka}

NoCall ==
    [op |-> "new", roman |-> <<>>, nepali |-> <<>>, count |-> 0, panic |-> FALSE,
     trie |-> <<>>, candidates |-> EmptyMap, result |-> <<>>, fault |-> "none", err |-> FALSE,
     word |-> <<>>, word_id |-> 0, fst |-> FstInit(<<>>), token |-> NoMatch]

Init ==
    /\ engine = NewEngine
    /\ disk = None
    /\ log = <<>>
    /\ disk_log = <<>>
    /\ last = NoCall
    /\ writer = None
    /\ host = NewHost

\* the guard as it would be if only the roman argument were looked at
IgnoredConfirmation_RomanOnly(roman, nepali) == roman = <<>>

\* user_confirms: `if roman.is_empty() || nepali.is_empty() { return; }`
IgnoredConfirmation(roman, nepali) == roman = <<>> \/ nepali = <<>>

\* ImeEngine::user_confirms(roman, nepali)
UserConfirms(roman, nepali) ==
    /\ IF IgnoredConfirmation(roman, nepali)
       THEN /\ UNCHANGED <<engine, log>>
            /\ last' = [NoCall EXCEPT !.op = "confirm", !.roman = roman, !.nepali = nepali]
       ELSE LET l == learn(engine.trie_builder, engine.context_model, engine.symspell,
                           roman, nepali)
            IN /\ engine' = [engine EXCEPT !.trie_builder = l.trie_builder,
                                           !.context_model = l.context_model,
                                           !.symspell = l.symspell]
               /\ log' = Append(log, <<roman, nepali>>)
               /\ last' = [NoCall EXCEPT !.op = "confirm", !.roman = roman,
                                         !.nepali = nepali, !.panic = l.panic]
    /\ UNCHANGED <<disk, disk_log, writer, host>>

\* ImeEngine::get_suggestions(prefix, count)
GetSuggestions(prefix, count) ==
    /\ \E o \in get_suggestions(engine, prefix, count) :
           last' = [NoCall EXCEPT !.op = "suggest", !.roman = prefix, !.count = count,
                                  !.panic = o.panic, !.trie = o.trie,
                                  !.candidates = o.candidates,
                                  !.result = o.result]
    /\ engine' = SelfAfterGetSuggestions(engine)
    /\ UNCHANGED <<disk, log, disk_log, writer, host>>

Next ==
    \/ \E roman \in Romans, nepali \in Words :
           Len(log) < MaxSuggestConfirms /\ UserConfirms(roman, nepali)
    \/ \E prefix \in Prefixes, count \in 0..MaxCount : GetSuggestions(prefix, count)

Spec == Init /\ [][Next]_vars

\* The confirmations alone: get_suggestions takes &self and leaves the engine
\* as it is, so the engines reached are those of Spec.
NextLearn ==
    \E roman \in Romans, nepali \in Words :
        Len(log) < MaxConfirms /\ UserConfirms(roman, nepali)

SpecLearn == Init /\ [][NextLearn]_vars

-----------------------------------------------------------------------------
(* Persistence: save_dictionary and from_file_or_new, with the failures    *)
(* the file system can answer at each step of save_to_disk.                *)

\* ImeEngine::save_dictionary
SaveDictionary(fault, rev) ==
    /\ IF engine.dictionary_path = None
       THEN /\ fault = "none"
            /\ rev = FALSE
            /\ UNCHANGED <<disk, disk_log>>
            /\ last' = [NoCall EXCEPT !.op = "save"]
       ELSE \E cut \in IF fault = "drop_flush"
                        THEN TruncationPoints(Serialize(engine, rev)) ELSE {0} :
                LET r == save_to_disk(engine, disk, fault, rev, cut) IN
                /\ disk' = r.file
                /\ disk_log' = IF r.file = disk THEN disk_log
                               ELSE IF fault = "none" THEN log ELSE <<>>
                /\ last' = [NoCall EXCEPT !.op = "save", !.fault = fault, !.err = r.err]
    /\ UNCHANGED <<engine, log, writer, host>>

\* ImeEngine::from_file_or_new(DICTIONARY_PATH): a host starts
FromFileOrNew ==
    LET l == from_file_or_new(disk, DICTIONARY_PATH) IN
    /\ engine' = l.engine
    /\ log' = IF l.ok THEN disk_log ELSE <<>>
    /\ last' = [NoCall EXCEPT !.op = "load", !.err = ~l.ok]
    /\ UNCHANGED <<disk, disk_log, writer, host>>

MaxPersistConfirms == 2
PersistRomans == {R_k, R_dash}
PersistWords == {N_ka, N_dash}

NextPersist ==
    \/ \E roman \in PersistRomans, nepali \in PersistWords :
           Len(log) < MaxPersistConfirms /\ UserConfirms(roman, nepali)
    \/ \E fault \in SaveFaults \cup {"none"}, rev \in BOOLEAN : SaveDictionary(fault, rev)
    \/ FromFileOrNew

SpecPersist == Init /\ [][NextPersist]_vars

\* Confirmations of two words, one whose first confirmation returns ("-") and
\* one whose first confirmation panics (U+0915), long enough for a bigram to
\* be counted twice, with queries in between.
MaxContextConfirms == 4
ContextPairs == {<<R_dash, N_dash>>, <<R_k, N_ka>>}

NextContext ==
    \/ \E p \in ContextPairs :
           Len(log) < MaxContextConfirms /\ UserConfirms(p[1], p[2])
    \/ \E prefix \in {R_dash, R_k}, count \in 1..MaxCount : GetSuggestions(prefix, count)

SpecContext == Init /\ [][NextContext]_vars

-----------------------------------------------------------------------------
(* The romanizer alone: RomanizationEngine is stateless, so a behaviour is *)
(* one input and one call of transliterate_primary or generate_candidates  *)
(* on it.                                                                  *)

MaxRomanLen == 3

\* a, i, u, k, r, m, '.', '_'
RomanAlphabet == {97, 105, 117, 107, 114, 109, 46, 95}

\* the inputs of bin/ime_test.rs that the scenarios name, and "OM", "ram"
RomanSamples ==
    { <<97>>, <<97, 97>>, <<107, 97>>, <<107, 105>>, <<107, 114, 97>>,
      <<109, 97, 108, 97, 97, 105, 105>>, <<97, 97, 109, 97, 97>>, <<79, 77>>,
      <<114, 97, 109>> }

\* the strings over RomanAlphabet of length up to n
RECURSIVE RomanStrings(_)
RomanStrings(n) ==
    IF n = 0 THEN { <<>> }
    ELSE RomanStrings(n - 1)
         \cup { Append(s, c) : s \in RomanStrings(n - 1), c \in RomanAlphabet }

RomanInputs == RomanStrings(MaxRomanLen) \cup RomanSamples

\* a caller holds an input for the romanizer
InitRoman ==
    /\ engine = NewEngine
    /\ disk = None
    /\ log = <<>>
    /\ disk_log = <<>>
    /\ \E roman \in RomanInputs : last = [NoCall EXCEPT !.op = "input", !.roman = roman]
    /\ writer = None
    /\ host = NewHost

\* RomanizationEngine::transliterate_primary(roman)
TransliteratePrimary ==
    /\ last.op = "input"
    /\ last' = [NoCall EXCEPT !.op = "transliterate_primary", !.roman = last.roman,
                              !.panic = transliterate_primary(last.roman).panic,
                              !.nepali = transliterate_primary(last.roman).text]
    /\ UNCHANGED <<engine, disk, log, disk_log, writer, host>>

\* RomanizationEngine::generate_candidates(roman); the variants after the
\* primary come in the iteration order of a HashSet
GenerateCandidates ==
    /\ last.op = "input"
    /\ IF generate_candidates(last.roman).panic
       THEN last' = [NoCall EXCEPT !.op = "generate_candidates", !.roman = last.roman,
                                   !.panic = TRUE]
       ELSE \E l \in generate_candidates(last.roman).lists :
                last' = [NoCall EXCEPT !.op = "generate_candidates", !.roman = last.roman,
                                       !.result = l]
    /\ UNCHANGED <<engine, disk, log, disk_log, writer, host>>

NextRoman == TransliteratePrimary \/ GenerateCandidates

SpecRoman == InitRoman /\ [][NextRoman]_vars


-----------------------------------------------------------------------------
(* The SymSpell index, with words added by SymSpell::add_word directly and *)
(* through user_confirms.                                                    *)

MaxIndexConfirms == 2

IndexWords == {R_k, R_ka, R_dash, N_ka}
IndexIds == 0..1

\* SymSpell::add_word(word, word_id) on the engine's index: a panic in
\* generate_edits comes before the first insertion
AddWord(word, word_id) ==
    LET a == add_word(engine.symspell.deletes, engine.symspell.max_edit_distance,
                      word, word_id)
    IN /\ engine' = [engine EXCEPT !.symspell.deletes = a.deletes]
       /\ last' = [NoCall EXCEPT !.op = "add_word", !.word = word,
                                 !.word_id = word_id, !.panic = a.panic]
       /\ UNCHANGED <<disk, log, disk_log, writer, host>>

NextIndex ==
    \/ \E word \in IndexWords, word_id \in IndexIds : AddWord(word, word_id)
    \/ \E roman \in PersistRomans, nepali \in PersistWords :
           Len(log) < MaxIndexConfirms /\ UserConfirms(roman, nepali)

SpecIndex == Init /\ [][NextIndex]_vars

-----------------------------------------------------------------------------
(* Engines built by new() and by from_file_or_new(path) on a file system   *)
(* with more than one path: `disk` maps each path to the file there.       *)

MaxPathConfirms == 1

OTHER_PATH == "other_dictionary.bin"
Paths == {DICTIONARY_PATH, OTHER_PATH}

InitPaths ==
    /\ engine = NewEngine
    /\ disk = [path \in Paths |-> None]
    /\ log = <<>>
    /\ disk_log = [path \in Paths |-> <<>>]
    /\ last = NoCall
    /\ writer = None
    /\ host = NewHost

\* ImeEngine::save_dictionary, the file system holding several paths
SaveDictionaryAt(fault, rev) ==
    /\ IF engine.dictionary_path = None
       THEN /\ fault = "none"
            /\ rev = FALSE
            /\ UNCHANGED <<disk, disk_log>>
            /\ last' = [NoCall EXCEPT !.op = "save"]
       ELSE \E cut \in IF fault = "drop_flush"
                        THEN TruncationPoints(Serialize(engine, rev)) ELSE {0} :
                LET path == engine.dictionary_path[1]
                    r == save_to_disk(engine, disk[path], fault, rev, cut)
                IN /\ disk' = [disk EXCEPT ![path] = r.file]
                   /\ disk_log' = IF r.file = disk[path] THEN disk_log
                                  ELSE [disk_log EXCEPT
                                           ![path] = IF fault = "none" THEN log ELSE <<>>]
                   /\ last' = [NoCall EXCEPT !.op = "save", !.fault = fault, !.err = r.err]
    /\ UNCHANGED <<engine, log, writer, host>>

\* ImeEngine::from_file_or_new(path): the engine of the process is replaced
FromFileOrNewAt(path) ==
    LET l == from_file_or_new(disk[path], path) IN
    /\ engine' = l.engine
    /\ log' = IF l.ok THEN disk_log[path] ELSE <<>>
    /\ last' = [NoCall EXCEPT !.op = "load", !.err = ~l.ok]
    /\ UNCHANGED <<disk, disk_log, writer, host>>

NextPaths ==
    \/ Len(log) < MaxPathConfirms /\ UserConfirms(R_dash, N_dash)
    \/ \E fault \in SaveFaults \cup {"none"}, rev \in BOOLEAN : SaveDictionaryAt(fault, rev)
    \/ \E path \in Paths : FromFileOrNewAt(path)

SpecPaths == InitPaths /\ [][NextPaths]_vars

-----------------------------------------------------------------------------
(* c_api.rs: two threads of the host, one in nepali_ime_confirm_word and   *)
(* one in nepali_ime_get_suggestions.  IME_ENGINE is a `static mut` raw    *)
(* pointer and neither function takes a lock, so the statements of learn   *)
(* interleave with the reader's call.                                      *)

MaxConcurrentConfirms == 3

\* the count nepali_ime_get_suggestions asks for
C_API_COUNT == 8

\* nepali_ime_confirm_word enters user_confirms: nothing written yet
ConfirmWordBegin(roman, nepali) ==
    /\ writer = None
    /\ ~IgnoredConfirmation(roman, nepali)
    /\ writer' = Some([roman |-> roman, nepali |-> nepali, at |-> "metadata"])
    /\ log' = Append(log, <<roman, nepali>>)
    /\ last' = [NoCall EXCEPT !.op = "confirm", !.roman = roman, !.nepali = nepali]
    /\ UNCHANGED <<engine, disk, disk_log, host>>

\* learn, from get_or_create_metadata to the end of the `if
\* metadata.variants.insert(..)` block; a panic in add_word ends the call
LearnMetadata ==
    /\ writer # None
    /\ writer[1].at = "metadata"
    /\ LET roman == writer[1].roman
           nepali == writer[1].nepali
           g == get_or_create_metadata(engine.trie_builder.metadata_store, nepali)
           old == MetaAt(g.metadata, g.id)
           is_new == roman \notin old.variants
           metadata == [g.metadata EXCEPT ![g.id + 1] = BumpFrequency(old, roman)]
           a1 == IF is_new
                 THEN add_word(engine.symspell.deletes, engine.symspell.max_edit_distance,
                               roman, g.id)
                 ELSE [panic |-> FALSE, deletes |-> engine.symspell.deletes]
           a2 == IF is_new /\ ~a1.panic /\ old.variants = {}
                 THEN add_word(a1.deletes, engine.symspell.max_edit_distance, nepali, g.id)
                 ELSE a1
       IN /\ engine' = [engine EXCEPT !.trie_builder.metadata_store = metadata,
                                      !.symspell.deletes =
                                          IF a1.panic THEN @ ELSE
                                          IF a2.panic THEN a1.deletes ELSE a2.deletes]
          /\ writer' = IF a1.panic \/ a2.panic THEN None
                       ELSE Some([writer[1] EXCEPT !.at = "trie"])
          /\ last' = [last EXCEPT !.op = "confirm", !.panic = a1.panic \/ a2.panic]
    /\ UNCHANGED <<disk, log, disk_log, host>>

\* learn: `trie.insert(&confirmation.roman, word_id, updated_freq)`
LearnTrie ==
    /\ writer # None
    /\ writer[1].at = "trie"
    /\ LET metadata == engine.trie_builder.metadata_store
           word_id == find_word_id_by_nepali(metadata, writer[1].nepali)[1]
       IN engine' = [engine EXCEPT !.trie_builder.nodes =
                        TrieInsert(engine.trie_builder.nodes, metadata,
                                   writer[1].roman, word_id)]
    /\ writer' = Some([writer[1] EXCEPT !.at = "context"])
    /\ last' = [last EXCEPT !.op = "confirm"]
    /\ UNCHANGED <<disk, log, disk_log, host>>

\* learn: `context_model.add_word(word_id)`, and the call returns
LearnContext ==
    /\ writer # None
    /\ writer[1].at = "context"
    /\ LET word_id == find_word_id_by_nepali(engine.trie_builder.metadata_store,
                                             writer[1].nepali)[1]
           c == context_add_word(engine.context_model.window_size,
                                 engine.context_model.history,
                                 engine.context_model.bigrams, word_id)
       IN engine' = [engine EXCEPT !.context_model.history = c.history,
                                   !.context_model.bigrams = c.bigrams]
    /\ writer' = None
    /\ last' = [last EXCEPT !.op = "confirm"]
    /\ UNCHANGED <<disk, log, disk_log, host>>

\* nepali_ime_get_suggestions(prefix) on the reader's thread, at any point
\* of the writer's call
NepaliImeGetSuggestions(prefix) ==
    /\ \E o \in get_suggestions(engine, prefix, C_API_COUNT) :
           last' = [NoCall EXCEPT !.op = "suggest", !.roman = prefix,
                                  !.count = C_API_COUNT,
                                  !.panic = o.panic, !.trie = o.trie,
                                  !.candidates = o.candidates,
                                  !.result = o.result]
    /\ UNCHANGED <<engine, disk, log, disk_log, writer, host>>

NextConcurrent ==
    \/ \E p \in ContextPairs :
           Len(log) < MaxConcurrentConfirms /\ ConfirmWordBegin(p[1], p[2])
    \/ LearnMetadata
    \/ LearnTrie
    \/ LearnContext
    \/ \E prefix \in {R_dash, R_k} : NepaliImeGetSuggestions(prefix)

SpecConcurrent == Init /\ [][NextConcurrent]_vars

-----------------------------------------------------------------------------
(* The trie: confirmations that put several spellings and several words    *)
(* below one prefix, and get_top_k_suggestions on the tries they build.    *)

MaxTrieConfirms == 5
MaxK == 2

R_ki == <<107, 105>>                         \* "ki"
R_ku == <<107, 117>>                         \* "ku"

\* two spellings of one word and one spelling of another, all below "k"
TriePairs == {<<R_ka, N_ka>>, <<R_ki, N_ka>>, <<R_ku, N_kaa>>}
TriePrefixes == {<<>>, R_k, R_ka}

\* TrieBuilder::get_top_k_suggestions(prefix, k) on the engine's trie
GetTopKSuggestions(prefix, k) ==
    /\ \E o \in get_top_k_suggestions(engine.trie_builder.nodes,
                                      engine.trie_builder.metadata_store, prefix, k) :
           last' = [NoCall EXCEPT !.op = "top_k", !.roman = prefix, !.count = k,
                                  !.panic = o.panic, !.trie = o.list]
    /\ UNCHANGED <<engine, disk, log, disk_log, writer, host>>

NextTrie ==
    \/ \E p \in TriePairs : Len(log) < MaxTrieConfirms /\ UserConfirms(p[1], p[2])
    \/ \E prefix \in TriePrefixes, k \in 1..MaxK : GetTopKSuggestions(prefix, k)

SpecTrie == Init /\ [][NextTrie]_vars

-----------------------------------------------------------------------------
(* The transducer of transliterate_base, one iteration of its while loop   *)
(* per step: last.fst is its configuration and last.token the match of     *)
(* the iteration just made.                                                *)

MaxFstLen == 3

\* a i k r y . _ and "-", which no table has
FstAlphabet == {97, 105, 107, 114, 121, 46, 95, 45}

RECURSIVE FstStrings(_)
FstStrings(n) ==
    IF n = 0 THEN {<<>>}
    ELSE FstStrings(n - 1) \cup { Append(s, c) : s \in FstStrings(n - 1), c \in FstAlphabet }

FstInputs == FstStrings(MaxFstLen) \ {<<>>}

\* transliterate_primary(roman) enters transliterate_base
InitFst ==
    /\ engine = NewEngine
    /\ disk = None
    /\ log = <<>>
    /\ disk_log = <<>>
    /\ writer = None
    /\ host = NewHost
    /\ \E roman \in FstInputs :
           last = [NoCall EXCEPT !.op = "loop", !.roman = roman, !.fst = FstInit(roman)]

\* one iteration of `while !input.is_empty()`
FstIteration ==
    /\ last.op = "loop"
    /\ last.fst.input # <<>>
    /\ ~last.fst.panic
    /\ last' = [last EXCEPT !.fst = FstStep(last.fst),
                            !.token = match_longest(StrTo(last.fst.input,
                                                          ChunkLen(last.fst.input)))]
    /\ UNCHANGED <<engine, disk, log, disk_log, writer, host>>

\* the loop has ended: `if force_schwa_deletion && result.ends_with(HALANTA)`
\* and the return, force_schwa_deletion being true in transliterate_primary
FstReturn ==
    /\ last.op = "loop"
    /\ last.fst.input = <<>> \/ last.fst.panic
    /\ last' = [last EXCEPT !.op = "transliterate_primary",
                            !.panic = FstFinish(last.fst, TRUE).panic,
                            !.nepali = FstFinish(last.fst, TRUE).text]
    /\ UNCHANGED <<engine, disk, log, disk_log, writer, host>>

NextFst == FstIteration \/ FstReturn

SpecFst == InitFst /\ [][NextFst]_vars

-----------------------------------------------------------------------------
(* SymSpell::lookup on the index that confirmations build.                 *)

MaxLookupConfirms == 2

R_kaa == <<107, 97, 97>>                     \* "kaa"

\* strings at deletion distance 0, 1, 2 and more from the spellings indexed,
\* and a Devanagari string
LookupStrings == {<<>>, R_k, R_ka, R_kaa, R_dash, <<97>>, <<107, 45>>,
                  <<107, 97, 97, 97, 97>>, N_ka}

\* SymSpell::lookup(input) on the engine's index
Lookup(input) ==
    LET l == lookup(engine.symspell.deletes, engine.symspell.max_edit_distance, input)
    IN /\ last' = [NoCall EXCEPT !.op = "lookup", !.word = input, !.panic = l.panic,
                                 !.result = l.ids]
       /\ UNCHANGED <<engine, disk, log, disk_log, writer, host>>

NextLookup ==
    \/ \E roman \in {R_ka, R_kaa, R_dash}, nepali \in {N_ka, N_dash} :
           Len(log) < MaxLookupConfirms /\ UserConfirms(roman, nepali)
    \/ \E input \in LookupStrings : Lookup(input)

SpecLookup == Init /\ [][NextLookup]_vars

-----------------------------------------------------------------------------
(* The simulator process of bin/simulator.rs: one step is one              *)
(* PROCESS_KEY_EVENT line read from stdin.  The dictionary file plays no   *)
(* part in the handling of a key.                                          *)

\* Bounds: the bytes of preedit, the COMMIT_TEXT lines written
MaxPreedit == 2
MaxHostCommits == 2

\* Space, Enter, Tab, BackSpace, Escape, "k", "K", "a", "-", and U+0915
KeyVals == {32, 65293, 65289, 65288, 65307, 107, 75, 97, 45, 2325}

\* the "PROCESS_KEY_EVENT" arm of main: handle_key_event, then update_ibus
\* with get_suggestions(preedit, 5) if it returned true.  update_ibus writes
\* to stdout too; its lines are not recorded in host.stdout.
ProcessKeyEvent(key_val, stdout_closed) ==
    /\ host.running
    /\ \E h \in handle_key_event(key_val, host.preedit, engine, host.stdout, stdout_closed) :
         /\ Len(h.preedit) <= MaxPreedit
         /\ Len(h.stdout) <= MaxHostCommits
         /\ stdout_closed => (h.err \/ h.needs_update)
         /\ engine' = h.engine
         /\ log' = IF h.confirmed = None THEN log ELSE Append(log, h.confirmed[1])
         /\ \E u \in IF h.running /\ h.needs_update
                     THEN get_suggestions(h.engine, h.preedit, 5)
                     ELSE { [panic |-> FALSE] } :
              /\ host' = [preedit |-> h.preedit, stdout |-> h.stdout,
                          running |-> h.running /\ ~u.panic /\ ~stdout_closed]
              /\ last' = [NoCall EXCEPT !.op = "key_event", !.count = key_val,
                                        !.roman = host.preedit, !.nepali = h.text,
                                        !.panic = h.panic \/ u.panic,
                                        !.err = stdout_closed]
    /\ UNCHANGED <<disk, disk_log, writer>>

NextHost ==
    \E key_val \in KeyVals, stdout_closed \in BOOLEAN :
        ProcessKeyEvent(key_val, stdout_closed)

SpecHost == Init /\ [][NextHost]_vars
-----------------------------------------------------------------------------
(* Properties.  `last` is the call that led to the state, `log` the        *)
(* confirmations made so far.                                              *)

\* the frequency stored for the word d, 0 when d has no WordId
StoredFrequency(metadata, d) ==
    LET id == find_word_id_by_nepali(metadata, d) IN
    IF id = None THEN 0 ELSE MetaAt(metadata, id[1]).frequency

\* the number of confirmations of the log whose devanagari argument was d
ConfirmCount(d) == Cardinality({ i \in 1..Len(log) : log[i][2] = d })

\* last is a user_confirms call with non-empty arguments
ConfirmedLast == last.op = "confirm" /\ last.roman # <<>> /\ last.nepali # <<>>

\* last is a get_suggestions call that returned
SuggestedLast == last.op = "suggest" /\ ~last.panic

\* the source that the candidate at place i of the returned list came from
SourceAt(i) == last.candidates[last.result[i][1]].source

\* C1: on an engine that has seen exactly one confirmation (r, d), a call
\* get_suggestions(p, K) with p a non-empty prefix of r (p = r included) and
\* K >= 1 returns a list whose first entry is d.
C1_FirstConfirmationRanksFirst ==
    (/\ Len(log) = 1
     /\ last.op = "suggest"
     /\ last.roman # <<>>
     /\ StartsWith(log[1][1], last.roman)
     /\ last.count >= 1)
    => (/\ ~last.panic
        /\ last.result # <<>>
        /\ last.result[1][1] = log[1][2])

\* C2: a user_confirms call with non-empty roman and non-empty devanagari
\* does not panic.
C2_ConfirmNeverPanics == ConfirmedLast => ~last.panic

\* the four updates that the confirmation (roman, nepali) makes, between the
\* engine `old` before the call and the engine `new` after it
MetadataUpdated(old, new, roman, nepali) ==
    LET id == find_word_id_by_nepali(new.trie_builder.metadata_store, nepali) IN
    /\ id # None
    /\ roman \in MetaAt(new.trie_builder.metadata_store, id[1]).variants
    /\ MetaAt(new.trie_builder.metadata_store, id[1]).frequency
         = StoredFrequency(old.trie_builder.metadata_store, nepali) + 1

TrieUpdated(new, roman, nepali) ==
    LET id == find_word_id_by_nepali(new.trie_builder.metadata_store, nepali)
        at == Navigate(new.trie_builder.nodes, 0, roman)
    IN /\ id # None
       /\ at # None
       /\ NodeAt(new.trie_builder.nodes, at[1]).word_id = id

SymSpellUpdated(new, roman, nepali) ==
    LET id == find_word_id_by_nepali(new.trie_builder.metadata_store, nepali) IN
    /\ id # None
    /\ roman \in DOMAIN new.symspell.deletes
    /\ id[1] \in new.symspell.deletes[roman]

ContextUpdated(old, new, nepali) ==
    LET id == find_word_id_by_nepali(new.trie_builder.metadata_store, nepali)
        before == old.context_model.history
        after == new.context_model.history
    IN /\ id # None
       /\ after # <<>>
       /\ after[Len(after)] = id[1]
       /\ after # before \/ Len(before) = old.context_model.window_size
       /\ before # <<>> =>
            LET pair == <<before[Len(before)], id[1]>> IN
            /\ pair \in DOMAIN new.context_model.bigrams
            /\ new.context_model.bigrams[pair]
                 = (IF pair \in DOMAIN old.context_model.bigrams
                    THEN old.context_model.bigrams[pair] ELSE 0) + 1

NothingUpdated(old, new) ==
    /\ new.trie_builder = old.trie_builder
    /\ new.symspell = old.symspell
    /\ new.context_model = old.context_model

AllUpdated(old, new, roman, nepali) ==
    /\ MetadataUpdated(old, new, roman, nepali)
    /\ TrieUpdated(new, roman, nepali)
    /\ SymSpellUpdated(new, roman, nepali)
    /\ ContextUpdated(old, new, nepali)

\* C3: a user_confirms call with non-empty arguments, whether it returns or
\* panics, leaves the engine with the metadata, the trie path, the SymSpell
\* index and the context window/bigrams all updated for the confirmation, or
\* with none of them changed.
C3_ConfirmAllOrNothing ==
    [][(ConfirmedLast' /\ log' # log)
         => \/ AllUpdated(engine, engine', last'.roman, last'.nepali)
            \/ NothingUpdated(engine, engine')]_vars

\* what C3 asks holds of the calls that return: a user_confirms call that
\* does not panic makes all four updates
ReturningConfirmUpdatesAll ==
    [][(ConfirmedLast' /\ log' # log /\ ~last'.panic)
         => AllUpdated(engine, engine', last'.roman, last'.nepali)]_vars

\* C4: a get_suggestions call, for every prefix and every count K >= 0, does
\* not panic and returns at most K entries with non-increasing scores.
C4_SuggestionsBoundedAndSorted ==
    last.op = "suggest"
    => (/\ ~last.panic
        /\ Len(last.result) <= last.count
        /\ \A i, j \in 1..Len(last.result) :
               i < j => last.result[i][2] >= last.result[j][2])

\* what C4 asks holds of the calls that return
ReturnedSuggestionsBoundedAndSorted ==
    SuggestedLast
    => (/\ Len(last.result) <= last.count
        /\ \A i, j \in 1..Len(last.result) :
               i < j => last.result[i][2] >= last.result[j][2])

\* C5: for every Devanagari word d the stored frequency equals the number of
\* confirmations whose devanagari argument was d, whatever the Roman
\* spellings, and no call lowers the frequency of a WordId.
C5_FrequencyCountsConfirmations ==
    /\ [](\A d \in Words \ {<<>>} :
              StoredFrequency(engine.trie_builder.metadata_store, d) = ConfirmCount(d))
    /\ [][\A i \in 1..Len(engine.trie_builder.metadata_store) :
              /\ i <= Len(engine'.trie_builder.metadata_store)
              /\ engine'.trie_builder.metadata_store[i].frequency
                   >= engine.trie_builder.metadata_store[i].frequency]_vars

\* C5 witness: a word confirmed twice, under two Roman spellings, once by a
\* call that panicked
C5_Witness ==
    /\ ConfirmedLast
    /\ \E i \in 1..Len(engine.trie_builder.metadata_store) :
           /\ engine.trie_builder.metadata_store[i].frequency = 2
           /\ Cardinality(engine.trie_builder.metadata_store[i].variants) = 2
           /\ engine.trie_builder.metadata_store[i].nepali = N_ka

\* the scores that each source offers for the string n in the call `last`,
\* taken from what the stages of get_suggestions iterate over
TrieScores(n) ==
    { last.trie[i][2] :
        i \in { j \in 1..Len(last.trie) :
                  /\ last.trie[j][1] < Len(engine.trie_builder.metadata_store)
                  /\ MetaAt(engine.trie_builder.metadata_store, last.trie[j][1]).nepali = n } }

FuzzyScores(n) ==
    { IF MetaAt(engine.trie_builder.metadata_store, id).frequency >= 1
      THEN MetaAt(engine.trie_builder.metadata_store, id).frequency - 1 ELSE 0 :
        id \in { w \in lookup(engine.symspell.deletes, engine.symspell.max_edit_distance,
                              last.roman).ids :
                   /\ w < Len(engine.trie_builder.metadata_store)
                   /\ MetaAt(engine.trie_builder.metadata_store, w).nepali = n } }

PrimaryScores(n) ==
    IF transliterate_primary(last.roman).text = n THEN {PRIMARY_LITERAL_SCORE} ELSE {}

LiteralScores(n) ==
    IF \E l \in generate_candidates(last.roman).lists : \E i \in 1..Len(l) : l[i] = n
    THEN {LITERAL_BASE_SCORE} ELSE {}

Offered(source, n) ==
    CASE source = "Trie" -> TrieScores(n)
      [] source = "Fuzzy" -> FuzzyScores(n)
      [] source = "PrimaryLiteral" -> PrimaryScores(n)
      [] source = "Literal" -> LiteralScores(n)

\* the source of highest precedence among those that offer n
BestSource(n) ==
    CHOOSE s \in { SuggestionSource[i] : i \in 1..Len(SuggestionSource) } :
        /\ Offered(s, n) # {}
        /\ \A t \in { SuggestionSource[i] : i \in 1..Len(SuggestionSource) } :
               Offered(t, n) # {} => SourceRank(t) <= SourceRank(s)

\* C6: in a get_suggestions call that returns, every candidate string carries,
\* before the contextual re-ranking, the source of highest precedence among
\* the sources that produced it (Trie > Fuzzy > PrimaryLiteral > Literal) and
\* the largest score that this source gave it, whatever the scores of the
\* sources of lower precedence.
C6_HighestPrecedenceSourceWins ==
    (SuggestedLast /\ last.roman # <<>>)
    => \A n \in DOMAIN last.candidates :
           /\ \E s \in { SuggestionSource[i] : i \in 1..Len(SuggestionSource) } :
                  Offered(s, n) # {}
           /\ last.candidates[n].source = BestSource(n)
           /\ last.candidates[n].score = SetMax(Offered(BestSource(n), n))

\* C6 witness: a string that the Trie or SymSpell offered with a score below
\* the one that the primary transliteration offered for it, and kept at the
\* lower score
C6_Witness ==
    /\ SuggestedLast
    /\ \E n \in DOMAIN last.candidates :
           /\ PrimaryScores(n) # {}
           /\ TrieScores(n) \cup FuzzyScores(n) # {}
           /\ last.candidates[n].source \in {"Trie", "Fuzzy"}
           /\ last.candidates[n].score < PRIMARY_LITERAL_SCORE

\* C7: in the list a get_suggestions call returns, a Trie-sourced candidate
\* comes before every PrimaryLiteral- or Literal-sourced candidate whose final
\* score is lower than or equal to its own.
C7_TrieBeforeLiteralsAtEqualScore ==
    SuggestedLast
    => \A i, j \in 1..Len(last.result) :
           (/\ SourceAt(j) = "Trie"
            /\ SourceAt(i) \in {"PrimaryLiteral", "Literal"}
            /\ last.result[i][2] <= last.result[j][2])
           => j < i

\* what C7 asks holds when the scores differ: a Trie-sourced candidate comes
\* before every PrimaryLiteral- or Literal-sourced candidate of lower score
TrieBeforeLiteralsOfLowerScore ==
    SuggestedLast
    => \A i, j \in 1..Len(last.result) :
           (/\ SourceAt(j) = "Trie"
            /\ SourceAt(i) \in {"PrimaryLiteral", "Literal"}
            /\ last.result[i][2] < last.result[j][2])
           => j < i

\* C8: in a get_suggestions call with a non-empty prefix that returns, the
\* candidate map built before the truncation has transliterate_primary(prefix)
\* among its keys, and the returned list contains it whenever count is at
\* least the number of candidates.
C8_PrimaryAmongCandidates ==
    (SuggestedLast /\ last.roman # <<>>)
    => /\ transliterate_primary(last.roman).text \in DOMAIN last.candidates
       /\ last.count >= Cardinality(DOMAIN last.candidates)
            => \E i \in 1..Len(last.result) :
                   last.result[i][1] = transliterate_primary(last.roman).text

\* C8 witness: a call on an engine whose trie and SymSpell index both offer
\* words for the prefix, none of them the primary transliteration, returns
\* the primary transliteration in its list
C8_Witness ==
    /\ SuggestedLast
    /\ last.roman # <<>>
    /\ last.trie # <<>>
    /\ last.count >= Cardinality(DOMAIN last.candidates)
    /\ \E i \in 1..Len(last.result) :
           /\ last.result[i][1] = transliterate_primary(last.roman).text
           /\ SourceAt(i) = "PrimaryLiteral"
    /\ \E i \in 1..Len(last.result) : SourceAt(i) = "Trie"

\* C9: saving the engine and loading the file that the save wrote gives trie
\* nodes, metadata store, context window with bigram counts and SymSpell
\* index equal to the saved ones, in whatever order the maps and sets were
\* written.
C9_SaveLoadRoundTrip ==
    \A rev \in BOOLEAN :
        LET saved == save_to_disk(engine, disk, "none", rev, 0)
            loaded == load_from_disk(saved.file)
        IN /\ ~saved.err
           /\ loaded.ok
           /\ loaded.engine.trie_builder = engine.trie_builder
           /\ loaded.engine.context_model = engine.context_model
           /\ loaded.engine.symspell = engine.symspell

\* C9 witness: an engine loaded from a file that a save wrote, with a learned
\* trie path, a bigram and a SymSpell index
C9_Witness ==
    /\ last.op = "load"
    /\ ~last.err
    /\ log = disk_log
    /\ Len(engine.trie_builder.nodes) > 1
    /\ engine.trie_builder.metadata_store # <<>>
    /\ DOMAIN engine.context_model.bigrams # {}
    /\ DOMAIN engine.symspell.deletes # {}

\* C10: a save_dictionary call in which a step of save_to_disk fails returns
\* the error and leaves the file at the dictionary path and the engine as
\* they were.
C10_FailedSaveKeepsSnapshot ==
    [][(last'.op = "save" /\ last'.fault # "none")
         => (last'.err /\ disk' = disk /\ engine' = engine)]_vars

\* what C10 asks holds of the failures that save_to_disk sees
ReportedSaveFailureKeepsSnapshot ==
    [][(last'.op = "save" /\ last'.err) => (disk' = disk /\ engine' = engine)]_vars

\* the places of the string n in the list that the call `last` returned
PlacesOf(n) == { i \in 1..Len(last.result) : last.result[i][1] = n }

\* the word m, reached by the call `last` through the SymSpell index alone,
\* is a candidate with the Fuzzy score of its frequency; with frequency 1 it
\* is listed with score 0 after every PrimaryLiteral candidate; and it is in
\* the list when count covers every candidate
FuzzyOnlyListed(m) ==
    /\ m.nepali \in DOMAIN last.candidates
    /\ last.candidates[m.nepali].source = "Fuzzy"
    /\ last.candidates[m.nepali].score = (IF m.frequency >= 1 THEN m.frequency - 1 ELSE 0)
    /\ m.frequency = 1 =>
         \A i \in PlacesOf(m.nepali) :
             /\ last.result[i][2] = 0
             /\ \A p \in DOMAIN last.candidates :
                    last.candidates[p].source = "PrimaryLiteral"
                    => \E j \in PlacesOf(p) : j < i /\ last.result[j][2] >= PRIMARY_LITERAL_SCORE
    /\ last.count >= Cardinality(DOMAIN last.candidates) => PlacesOf(m.nepali) # {}

\* the WordIds that the call `last` reached through the SymSpell index and
\* not through the trie
FuzzyOnlyIds ==
    { id \in lookup(engine.symspell.deletes, engine.symspell.max_edit_distance,
                    last.roman).ids :
        /\ id < Len(engine.trie_builder.metadata_store)
        /\ TrieScores(MetaAt(engine.trie_builder.metadata_store, id).nepali) = {} }

\* C11: in a get_suggestions call that returns, a learned word reached through
\* the SymSpell index and not through the trie is a candidate with source
\* Fuzzy and score max(0, frequency - 1); with frequency 1 its score in the
\* list is 0 and it comes after the primary literal (score 2); it is in the
\* returned list when count is at least the number of candidates.
C11_FuzzyOnlyWordListed ==
    (SuggestedLast /\ last.roman # <<>>)
    => \A id \in FuzzyOnlyIds :
           FuzzyOnlyListed(MetaAt(engine.trie_builder.metadata_store, id))

\* C11 witness: a word of frequency 1 whose Roman key the query is not a
\* prefix of, found by SymSpell, in the list with score 0 after the primary
\* literal
C11_Witness ==
    /\ SuggestedLast
    /\ last.roman # <<>>
    /\ last.trie = <<>>
    /\ \E id \in FuzzyOnlyIds :
           /\ MetaAt(engine.trie_builder.metadata_store, id).frequency = 1
           /\ \A r \in MetaAt(engine.trie_builder.metadata_store, id).variants :
                  ~StartsWith(r, last.roman)
           /\ \E i \in PlacesOf(MetaAt(engine.trie_builder.metadata_store, id).nepali) :
                  /\ i > 1
                  /\ SourceAt(1) = "PrimaryLiteral"
                  /\ last.result[i][2] = 0

\* the WordId of the most recent confirmation of the log
LastConfirmedId ==
    find_word_id_by_nepali(engine.trie_builder.metadata_store, log[Len(log)][2])[1]

\* floor(10 * log2(c)) for the count c of the bigram (p, id), 0 without one
BigramBoost(p, id) ==
    IF <<p, id>> \in DOMAIN engine.context_model.bigrams
    THEN Boost(engine.context_model.bigrams[<<p, id>>])
    ELSE 0

\* every listed candidate that has a WordId carries its candidate score plus
\* the boost of the bigram (p, WordId)
BoostedBy(p) ==
    \A i \in 1..Len(last.result) :
        find_word_id_by_nepali(engine.trie_builder.metadata_store, last.result[i][1]) # None
        => last.result[i][2]
             = last.candidates[last.result[i][1]].score
               + BigramBoost(p, find_word_id_by_nepali(engine.trie_builder.metadata_store,
                                                       last.result[i][1])[1])

\* C12: in a get_suggestions call that returns, a candidate with WordId id
\* has floor(10 * log2(c)) added to its score, c = bigrams[(p, id)] and p the
\* most recently confirmed WordId, and keeps its score without such a bigram.
C12_BoostFromLastConfirmed ==
    (SuggestedLast /\ log # <<>>) => BoostedBy(LastConfirmedId)

\* what C12 asks holds with p the back of the context window: the boost is
\* floor(10 * log2(c)), 0 for c = 1 and 10 for c = 2, it does not decrease as
\* c grows, and no listed score is below the candidate's score
BoostFromWindowBack ==
    /\ Boost(1) = 0 /\ Boost(2) = 10
    /\ \A c \in 1..6 : Boost(c) <= Boost(c + 1)
    /\ (SuggestedLast /\ engine.context_model.history # <<>>)
       => BoostedBy(engine.context_model.history[Len(engine.context_model.history)])
    /\ SuggestedLast
       => \A i \in 1..Len(last.result) :
              last.result[i][2] >= last.candidates[last.result[i][1]].score

\* C13: a user_confirms call with an empty roman or an empty devanagari
\* leaves the metadata store, the trie, the SymSpell index, the context
\* window and the bigram counts as they were.
C13_EmptyConfirmationChangesNothing ==
    [][(last'.op = "confirm" /\ (last'.roman = <<>> \/ last'.nepali = <<>>))
         => /\ engine'.trie_builder = engine.trie_builder
            /\ engine'.symspell = engine.symspell
            /\ engine'.context_model = engine.context_model]_vars

\* C13 witness: a call with one argument empty and the other not, on an engine
\* that has learned words
C13_Witness ==
    /\ last.op = "confirm"
    /\ last.roman = <<>> \/ last.nepali = <<>>
    /\ last.roman # <<>> \/ last.nepali # <<>>
    /\ Len(engine.trie_builder.nodes) > 1
    /\ engine.context_model.history # <<>>

\* the scenarios of the primary transducer, <<input, expected output>>:
\*   a -> U+0905
\*   aa -> U+0906
\*   ka -> U+0915
\*   ki -> U+0915 U+093F
\*   kra -> U+0915 U+094D U+0930
\*   malaaii -> U+092E U+0932 U+093E U+0908
\*   aamaa -> U+0906 U+092E U+093E
\*   OM -> U+0950
PrimaryScenarios ==
    { <<<<97>>, <<224, 164, 133>>>>,
      <<<<97, 97>>, <<224, 164, 134>>>>,
      <<<<107, 97>>, <<224, 164, 149>>>>,
      <<<<107, 105>>, <<224, 164, 149, 224, 164, 191>>>>,
      <<<<107, 114, 97>>, <<224, 164, 149, 224, 165, 141, 224, 164, 176>>>>,
      <<<<109, 97, 108, 97, 97, 105, 105>>, <<224, 164, 174, 224, 164, 178, 224, 164, 190, 224, 164, 136>>>>,
      <<<<97, 97, 109, 97, 97>>, <<224, 164, 134, 224, 164, 174, 224, 164, 190>>>>,
      <<<<79, 77>>, <<224, 165, 144>>>> }

\* C14: transliterate_primary maps a, aa, ka, ki, kra, malaaii, aamaa and OM
\* to the Devanagari strings of the scenarios.
C14_PrimaryScenariosHold ==
    last.op = "transliterate_primary"
    => \A s \in PrimaryScenarios :
           last.roman = s[1] => (~last.panic /\ last.nepali = s[2])

\* C14 witness: transliterate_primary has run on the longest scenario input,
\* malaaii
C14_Witness ==
    /\ last.op = "transliterate_primary"
    /\ last.roman = <<109, 97, 108, 97, 97, 105, 105>>
    /\ last.nepali = <<224, 164, 174, 224, 164, 178, 224, 164, 190, 224, 164, 136>>

\* C15: transliterate_primary("ram") returns U+0930 U+093E U+092E (the word
\* Ram), not the form ending in a halanta and no other string.
C15_RamScenario ==
    (last.op = "transliterate_primary" /\ last.roman = <<114, 97, 109>>)
    => (~last.panic /\ last.nepali = <<224, 164, 176, 224, 164, 190, 224, 164, 174>>)

\* a list has no element twice
NoDuplicates(list) == \A i, j \in 1..Len(list) : list[i] = list[j] => i = j

\* C16: generate_candidates returns, for a non-empty input, a list without
\* duplicates whose first element is transliterate_primary(input); for an
\* input that is one symbol token, exactly that symbol's mapping; and for the
\* empty input the empty list.
C16_CandidatesStartWithPrimary ==
    last.op = "generate_candidates"
    => /\ ~last.panic
       /\ last.roman = <<>> => last.result = <<>>
       /\ last.roman # <<>> =>
            /\ last.result # <<>>
            /\ NoDuplicates(last.result)
            /\ last.result[1] = transliterate_primary(last.roman).text
       /\ last.roman \in DOMAIN symbols => last.result = <<symbols[last.roman]>>

\* what C16 asks holds of every input but the symbol "_", the explicit halanta
CandidatesStartWithPrimaryButHalanta ==
    (last.op = "generate_candidates" /\ last.roman # <<95>>)
    => /\ ~last.panic
       /\ last.roman = <<>> => last.result = <<>>
       /\ last.roman # <<>> =>
            /\ last.result # <<>>
            /\ NoDuplicates(last.result)
            /\ last.result[1] = transliterate_primary(last.roman).text
       /\ last.roman \in DOMAIN symbols => last.result = <<symbols[last.roman]>>

-----------------------------------------------------------------------------
(* C17 *)

\* The Devanagari strings of a confirmation log, each once, in the order of
\* their first confirmation
RECURSIVE FirstConfirmed(_)
FirstConfirmed(confirmations) ==
    IF confirmations = <<>> THEN <<>>
    ELSE LET n == Len(confirmations)
             before == FirstConfirmed(SubSeq(confirmations, 1, n - 1))
             nepali == confirmations[n][2]
         IN IF \E i \in 1..Len(before) : before[i] = nepali
            THEN before ELSE Append(before, nepali)

\* The Devanagari string of every WordId 0..n-1, in WordId order
StoredWords(e) ==
    [id \in 1..Len(e.trie_builder.metadata_store) |-> e.trie_builder.metadata_store[id].nepali]

\* Each Devanagari string is stored at most once, and the WordIds 0..n-1 are
\* the confirmed words in order of first confirmation
MetadataDenseUnique ==
    /\ \A i, j \in 1..Len(engine.trie_builder.metadata_store) :
           engine.trie_builder.metadata_store[i].nepali = engine.trie_builder.metadata_store[j].nepali
               => i = j
    /\ StoredWords(engine) = FirstConfirmed(log)

\* A step keeps every assigned WordId and its Devanagari string
MetadataAppendOnly ==
    /\ Len(engine'.trie_builder.metadata_store) >= Len(engine.trie_builder.metadata_store)
    /\ \A id \in 1..Len(engine.trie_builder.metadata_store) :
           engine'.trie_builder.metadata_store[id].nepali = engine.trie_builder.metadata_store[id].nepali

\* C17: after any sequence of userConfirms calls the metadata store holds each
\* Devanagari string at most once, the WordIds are the dense indices 0..n-1 in
\* order of first confirmation, and the Devanagari string of an assigned
\* WordId never changes and is never removed
C17_MetadataDenseAppendOnly ==
    [](MetadataDenseUnique) /\ [][MetadataAppendOnly]_vars

\* C17 witness: two different words are stored and the last confirmation was
\* of the first of them again, which is not stored a second time
C17_Witness ==
    /\ last.op = "confirm"
    /\ Len(engine.trie_builder.metadata_store) = 2
    /\ Len(log) = 3
    /\ last.nepali = engine.trie_builder.metadata_store[1].nepali

-----------------------------------------------------------------------------
(* C18 *)

\* The strings looked up: ASCII strings within and beyond the edit distance of
\* the indexed words, and a Devanagari string, on which lookup panics
LookupInputs == {<<>>, R_k, R_ka, R_dash, <<107, 97, 97>>, <<97>>, <<107, 45>>, N_ka}

\* The WordIds lookup returns on an index; a lookup that panics returns none
LookupIds(e, input) ==
    lookup(e.symspell.deletes, e.symspell.max_edit_distance, input).ids

\* Every lookup returns after the step at least the WordIds it returned before
LookupGrows ==
    \A input \in LookupInputs : LookupIds(engine, input) \subseteq LookupIds(engine', input)

\* C18: adding a word to the SymSpell index, directly or through userConfirms,
\* never removes a WordId from any lookup result: for every input string the
\* result after the addition is a superset of the result before it
C18_LookupMonotone == [][LookupGrows]_vars

\* C18 witness: WordId 1 has just been added, directly, under a key that
\* already led to WordId 0, and the lookup of "k" returns both
C18_Witness ==
    /\ last.op = "add_word"
    /\ ~last.panic
    /\ last.word_id = 1
    /\ LookupIds(engine, R_k) = {0, 1}

\* C18 witness through userConfirms: a second word was confirmed and the
\* lookup of "k" returns both WordIds
LookupGrownByConfirm ==
    /\ last.op = "confirm"
    /\ Len(engine.trie_builder.metadata_store) = 2
    /\ LookupIds(engine, R_k) = {0, 1}

-----------------------------------------------------------------------------
(* C19 *)

\* from_file_or_new(path) leaves an engine with that path, and with empty
\* components when loading failed; no other call changes the path
PathSetByFromFileOrNew ==
    IF last'.op = "load"
    THEN /\ \E path \in Paths : engine'.dictionary_path = Some(path)
         /\ last'.err => \E path \in Paths :
                engine' = [NewEngine EXCEPT !.dictionary_path = Some(path)]
    ELSE engine'.dictionary_path = engine.dictionary_path

\* save_dictionary of an engine without a path writes nothing and returns
\* success; with a path it leaves every other path alone and, when the file
\* system does not fail, leaves at that path a file that loads as the engine
SaveGoesToThePath ==
    last'.op = "save" =>
        IF engine.dictionary_path = None
        THEN disk' = disk /\ ~last'.err
        ELSE LET path == engine.dictionary_path[1] IN
             /\ \A other \in Paths \ {path} : disk'[other] = disk[other]
             /\ last'.fault = "none" =>
                    /\ ~last'.err
                    /\ disk'[path] # None
                    /\ from_file_or_new(disk'[path], path) = [ok |-> TRUE, engine |-> engine]

\* C19: saveDictionary writes a file exactly when the engine was built by
\* fromFileOrNew(path), and then to that path, also when loading failed and
\* the engine started empty; an engine built by new() has no path and its
\* saveDictionary writes nothing and returns success
C19_SaveWritesToRememberedPath ==
    /\ engine.dictionary_path = None
    /\ [][PathSetByFromFileOrNew /\ SaveGoesToThePath]_vars

\* C19 witness: an engine that from_file_or_new built empty, the load having
\* failed, has been saved, and the file is at its path and nowhere else
C19_Witness ==
    /\ last.op = "save"
    /\ last.fault = "none"
    /\ engine = [NewEngine EXCEPT !.dictionary_path = Some(OTHER_PATH)]
    /\ disk[OTHER_PATH] # None
    /\ disk[DICTIONARY_PATH] = None

\* C19 witness for new(): the engine has no path and a save has returned
SavedWithoutPath ==
    /\ last.op = "save"
    /\ engine.dictionary_path = None
    /\ engine.trie_builder.metadata_store # <<>>

-----------------------------------------------------------------------------
(* C20 *)

\* Values the leading element of a snapshot file can take
HeaderValues == 0..3

\* the last call was a save_dictionary that wrote the whole snapshot
CompleteSnapshotWritten ==
    /\ last.op = "save"
    /\ last.fault = "none"
    /\ ~last.err
    /\ disk # None

\* the file as it is but for its leading element
WithHeader(file, v) == Some(<<v>> \o Tail(file[1]))

\* C20: loading refuses a snapshot whose format-version header is unknown: the
\* saved blob starts with a version header, the same for every snapshot this
\* code writes (it is the one new() saves), and load returns an error for a
\* file that has another value in its place
C20_UnknownVersionRefused ==
    CompleteSnapshotWritten =>
        /\ disk[1][1] = Serialize(NewEngine, FALSE)[1]
        /\ \A v \in HeaderValues \ {disk[1][1]} :
               ~load_from_disk(WithHeader(disk, v)).ok

-----------------------------------------------------------------------------
(* C21 *)

\* A get_suggestions step leaves every component of the engine as it was
SuggestionsChangeNothing ==
    last'.op = "suggest" =>
        /\ engine'.trie_builder.nodes = engine.trie_builder.nodes
        /\ engine'.trie_builder.metadata_store = engine.trie_builder.metadata_store
        /\ engine'.symspell = engine.symspell
        /\ engine'.context_model = engine.context_model
        /\ engine' = engine

\* C21: getSuggestions changes no engine state: for every prefix and count,
\* trie nodes and subtree maxima, metadata frequencies and variants, SymSpell
\* buckets, context window and bigram counts are the same after the call as
\* before it
C21_SuggestionsChangeNothing == [][SuggestionsChangeNothing]_vars

\* C21 witness: get_suggestions has returned a suggestion from an engine
\* with a learned word, a context window and a bigram
C21_Witness ==
    /\ last.op = "suggest"
    /\ ~last.panic
    /\ last.result # <<>>
    /\ engine.context_model.history # <<>>
    /\ DOMAIN engine.context_model.bigrams # {}
    /\ Len(engine.trie_builder.nodes) > 1

-----------------------------------------------------------------------------
(* C22 *)

\* the confirmation in flight has written part of what it writes
PartlyApplied == writer # None /\ writer[1].at # "metadata"

\* the sequential call is the composition of the statements of the
\* concurrent one: with no reader in between, the engine after LearnContext
\* is the engine user_confirms leaves
StepsComposeToLearn ==
    (writer = None /\ last.op = "confirm" /\ ~last.panic /\ Len(log) = 1) =>
        LET l == learn(NewEngine.trie_builder, NewEngine.context_model, NewEngine.symspell,
                       log[1][1], log[1][2])
        IN /\ engine.trie_builder = l.trie_builder
           /\ engine.context_model = l.context_model
           /\ engine.symspell = l.symspell

\* C22: a getSuggestions call that runs concurrently with a confirmation on
\* the same engine never observes a partly applied confirmation (the metadata
\* frequency raised while the trie or the context is not yet updated): when
\* get_suggestions has just returned, no confirmation is part way through
C22_ReaderNeverSeesPartialConfirmation ==
    last.op = "suggest" => ~PartlyApplied

-----------------------------------------------------------------------------
(* C23 *)

\* the nodes of the subtree of node idx
RECURSIVE Subtree(_, _)
Subtree(nodes, idx) ==
    {idx} \cup UNION { Subtree(nodes, NodeAt(nodes, idx).children[b])
                       : b \in DOMAIN NodeAt(nodes, idx).children }

\* the terminal nodes below a prefix, each with the current frequency of its
\* word: a set of <<node, frequency>>
TerminalsBelow(e, prefix) ==
    LET start == Navigate(e.trie_builder.nodes, 0, prefix) IN
    IF start = None THEN {}
    ELSE { <<idx, MetaAt(e.trie_builder.metadata_store,
                         NodeAt(e.trie_builder.nodes, idx).word_id[1]).frequency>>
           : idx \in { i \in Subtree(e.trie_builder.nodes, start[1]) :
                          NodeAt(e.trie_builder.nodes, i).word_id # None } }

\* the frequencies of a set of <<node, frequency>>, highest first
RECURSIVE FrequenciesDescending(_)
FrequenciesDescending(terminals) ==
    IF terminals = {} THEN <<>>
    ELSE LET top == CHOOSE t \in terminals : \A u \in terminals : u[2] <= t[2]
         IN <<top[2]>> \o FrequenciesDescending(terminals \ {top})

\* the first n elements of a sequence
Prefix(s, n) == SubSeq(s, 1, IF n < Len(s) THEN n ELSE Len(s))

\* C23: in any trie reachable by userConfirms calls, get_top_k_suggestions(
\* prefix, K) with K >= 1 returns, in descending frequency order, the
\* min(K, n) highest-frequency entries among the n terminal nodes below
\* prefix, whatever the order in which children are visited
C23_TopKAreTheHighest ==
    (last.op = "top_k" /\ last.count >= 1) =>
        /\ ~last.panic
        /\ [i \in 1..Len(last.trie) |-> last.trie[i][2]]
               = Prefix(FrequenciesDescending(TerminalsBelow(engine, last.roman)), last.count)

\* with K = 1 the heap's largest element is its only one, and the result is
\* the highest-frequency terminal
TopOneIsTheHighest ==
    (last.op = "top_k" /\ last.count = 1) =>
        /\ ~last.panic
        /\ [i \in 1..Len(last.trie) |-> last.trie[i][2]]
               = Prefix(FrequenciesDescending(TerminalsBelow(engine, last.roman)), 1)

-----------------------------------------------------------------------------
(* C24 *)

\* C24: after any sequence of userConfirms calls, including several Roman
\* spellings confirmed for one word and one Roman spelling confirmed for
\* different words, every trie node N satisfies max_freq_in_subtree(N) =
\* max(current frequency of N's terminal WordId if it has one, maximum of
\* max_freq_in_subtree over N's children)
C24_SubtreeMaxIsCurrent ==
    \A idx \in 0..(Len(engine.trie_builder.nodes) - 1) :
        NodeAt(engine.trie_builder.nodes, idx).max_freq_in_subtree
            = RecomputedMax(engine.trie_builder.nodes, engine.trie_builder.metadata_store, idx)

\* what does hold: the stored maximum of a node is never below the stored
\* maximum of any of its children
SubtreeMaxCoversChildren ==
    \A idx \in 0..(Len(engine.trie_builder.nodes) - 1) :
        \A b \in DOMAIN NodeAt(engine.trie_builder.nodes, idx).children :
            NodeAt(engine.trie_builder.nodes,
                   NodeAt(engine.trie_builder.nodes, idx).children[b]).max_freq_in_subtree
                <= NodeAt(engine.trie_builder.nodes, idx).max_freq_in_subtree

-----------------------------------------------------------------------------
(* C25 *)

\* the number of confirmations of the pair <<roman, nepali>> in a log
TimesConfirmed(confirmations, roman, nepali) ==
    Cardinality({ i \in 1..Len(confirmations) : confirmations[i] = <<roman, nepali>> })

\* the byte path r exists in the trie and ends at a node whose word_id is id
PathEndsAt(e, r, id) ==
    LET at == Navigate(e.trie_builder.nodes, 0, r) IN
    /\ at # None
    /\ NodeAt(e.trie_builder.nodes, at[1]).word_id = Some(id)

\* C25: after any sequence of userConfirms calls, for every WordId id and
\* every Roman string r in metadata[id].variants, the byte path r exists in
\* the trie and ends at a node whose word_id is id, and metadata[id].frequency
\* is at least the number of times r was confirmed
C25_VariantsAreTriePaths ==
    \A id \in 0..(Len(engine.trie_builder.metadata_store) - 1) :
        \A r \in MetaAt(engine.trie_builder.metadata_store, id).variants :
            /\ PathEndsAt(engine, r, id)
            /\ MetaAt(engine.trie_builder.metadata_store, id).frequency
                   >= TimesConfirmed(log, r, MetaAt(engine.trie_builder.metadata_store, id).nepali)

\* the frequency half of C25 alone holds
FrequencyCoversConfirmations ==
    \A id \in 0..(Len(engine.trie_builder.metadata_store) - 1) :
        \A r \in MetaAt(engine.trie_builder.metadata_store, id).variants :
            MetaAt(engine.trie_builder.metadata_store, id).frequency
                >= TimesConfirmed(log, r, MetaAt(engine.trie_builder.metadata_store, id).nepali)

\* the spelling just confirmed by a call that returned ends at the word it
\* was confirmed for
ConfirmedSpellingEndsAtItsWord ==
    (last.op = "confirm" /\ ~last.panic /\ ~IgnoredConfirmation(last.roman, last.nepali)) =>
        PathEndsAt(engine, last.roman,
                   find_word_id_by_nepali(engine.trie_builder.metadata_store, last.nepali)[1])

-----------------------------------------------------------------------------
(* C26 *)

VIRAMA == <<224, 165, 141>>

\* s ends with a virama, and s without it
EndsWithVirama(s) == Len(s) >= 3 /\ SubSeq(s, Len(s) - 2, Len(s)) = VIRAMA
WithoutVirama(s) == IF EndsWithVirama(s) THEN SubSeq(s, 1, Len(s) - 3) ELSE s

\* the row of the transition table for state `state` and the token matched:
\* what the output and the state must be after the iteration
TableRow(state, before, token, after) ==
    IF token.kind = "None"
    THEN /\ after.state = "Start"
         /\ Len(after.result) >= 1
         /\ after.result[Len(after.result)] = before.input[1]
    ELSE IF state \in {"Start", "Syllable"}
    THEN IF token.kind = "Consonant"
         THEN after.result = before.result \o token.full \o VIRAMA /\ after.state = "Halanta"
         ELSE IF token.kind = "Vowel"
         THEN after.result = before.result \o token.full /\ after.state = "Syllable"
         ELSE after.result = before.result \o token.full /\ after.state = "Start"
    ELSE IF token.kind = "Consonant"
         THEN after.result = before.result \o token.full \o VIRAMA /\ after.state = "Halanta"
         ELSE IF token.kind = "Vowel"
         THEN /\ after.result = WithoutVirama(before.result) \o token.matra
              /\ after.state = "Syllable"
         ELSE /\ after.result = WithoutVirama(before.result) \o token.full
              /\ after.state = "Start"

\* an iteration of the loop has been made by this step
Iterated == last.op = "loop" /\ last'.op = "loop" /\ last'.fst # last.fst

\* C26: for every state and token kind the transducer follows the transition
\* table: in Start or Syllable a consonant emits consonant + virama and moves
\* to Halanta, a vowel emits its independent form and moves to Syllable, a
\* symbol emits itself and moves to Start; in Halanta every consonant token
\* emits consonant + virama and stays in Halanta, a vowel drops the trailing
\* virama, emits its matra and moves to Syllable, a symbol drops the trailing
\* virama, emits itself and moves to Start; an unmatched byte is emitted
\* verbatim and moves to Start
C26_TransitionTable ==
    [][Iterated => TableRow(last.fst.state, last.fst, last'.token, last'.fst)]_vars

\* the table holds for every iteration but that of a y or r token in Halanta
TransitionTableButYaPhalaRakar ==
    [][(Iterated /\ ~(last.fst.state = "Halanta" /\ last'.token.kind = "Consonant"
                      /\ last'.token.token \in {<<121>>, <<114>>}))
          => TableRow(last.fst.state, last.fst, last'.token, last'.fst)]_vars

-----------------------------------------------------------------------------
(* C27 *)

\* s is a prefix of t: nothing was removed from the output
IsPrefixOf(s, t) == Len(s) <= Len(t) /\ SubSeq(t, 1, Len(s)) = s

\* transliterate_base has returned by this step
Returned == last.op = "loop" /\ last'.op = "transliterate_primary" /\ ~last'.panic

\* an iteration made in a state other than Halanta removes nothing, and the
\* end of input removes the trailing virama when and only when the final
\* state is Halanta
ViramaRemovedOnlyInHalanta ==
    /\ (Iterated /\ last.fst.state # "Halanta") => IsPrefixOf(last.fst.result, last'.fst.result)
    /\ Returned => last'.nepali = IF last.fst.state = "Halanta"
                                  THEN WithoutVirama(last.fst.result)
                                  ELSE last.fst.result

\* C27: the transducer removes a trailing virama from its output only when
\* its state is Halanta: at end of input transliteratePrimary drops the
\* trailing virama when and only when the final state is Halanta, and an
\* unmatched byte drops it only when the current state is Halanta; a virama
\* emitted in any other state (for example by the symbol _) is kept
C27_ViramaRemovedOnlyInHalanta == [][ViramaRemovedOnlyInHalanta]_vars

\* the rule holds for every input that has no explicit-virama symbol
ViramaRuleWithoutExplicitVirama ==
    [][(\A i \in 1..Len(last.roman) : last.roman[i] # 95) => ViramaRemovedOnlyInHalanta]_vars

-----------------------------------------------------------------------------
(* C28 *)

\* C28: whenever the transducer is in state Halanta, after any sequence of
\* tokens, the output buffer ends with a virama (U+094D)
C28_HalantaEndsWithVirama ==
    (last.op = "loop" /\ ~last.fst.panic /\ last.fst.state = "Halanta")
        => EndsWithVirama(last.fst.result)

\* it holds for every input without y and r
HalantaEndsWithViramaWithoutYR ==
    (last.op = "loop" /\ ~last.fst.panic /\ last.fst.state = "Halanta"
        /\ \A i \in 1..Len(last.roman) : last.roman[i] \notin {121, 114})
        => EndsWithVirama(last.fst.result)

-----------------------------------------------------------------------------
(* C29 *)

\* the delete set of s: s with 0 to d of its bytes removed
RECURSIVE DeleteSet(_, _)
DeleteSet(s, d) ==
    IF d = 0 THEN {s}
    ELSE {s} \cup UNION { DeleteSet(SubSeq(s, 1, i - 1) \o SubSeq(s, i + 1, Len(s)), d - 1)
                          : i \in 1..Len(s) }

\* the strings learn has passed to add_word for WordId id: every spelling
\* of the word, and the word itself
IndexedStrings(e, id) ==
    MetaAt(e.trie_builder.metadata_store, id).variants
        \cup {MetaAt(e.trie_builder.metadata_store, id).nepali}

\* the WordIds with an indexed string whose delete set meets that of input
IdsWithinDistance(e, input) ==
    { id \in 0..(Len(e.trie_builder.metadata_store) - 1) :
        \E s \in IndexedStrings(e, id) :
            DeleteSet(s, MAX_EDIT_DISTANCE) \cap DeleteSet(input, MAX_EDIT_DISTANCE) # {} }

\* input is s with at most MAX_EDIT_DISTANCE bytes removed
ShortenedFrom(input, s) == input \in DeleteSet(s, MAX_EDIT_DISTANCE)

\* C29: SymSpell lookup(input) returns exactly the WordIds that have an
\* indexed string whose delete set (the string with 0 to D characters removed,
\* D = 2) shares an element with the delete set of input; in particular it
\* returns id for every ASCII input obtained from an indexed Roman spelling of
\* id by deleting at most D characters, and for every ASCII input from which
\* that spelling is obtained by deleting at most D characters
C29_LookupIsDeleteSetMatch ==
    (last.op = "lookup" /\ ~last.panic) =>
        /\ last.result = IdsWithinDistance(engine, last.word)
        /\ \A id \in 0..(Len(engine.trie_builder.metadata_store) - 1) :
               \A r \in MetaAt(engine.trie_builder.metadata_store, id).variants :
                   (ShortenedFrom(last.word, r) \/ ShortenedFrom(r, last.word))
                       => id \in last.result

\* C29 witness: "kaa" is a spelling of WordId 0, "-" of WordId 1, and the
\* lookup of "kaaaa", from which "kaa" is obtained by two deletions, has
\* returned WordId 0 and not WordId 1
C29_Witness ==
    /\ last.op = "lookup"
    /\ last.word = <<107, 97, 97, 97, 97>>
    /\ Len(engine.trie_builder.metadata_store) = 2
    /\ R_kaa \in MetaAt(engine.trie_builder.metadata_store, 0).variants
    /\ last.result = {0}

\* a lookup of an input shortened from a spelling, and of one the spelling is
\* shortened from, has returned the word
FoundInBothDirections ==
    /\ last.op = "lookup"
    /\ last.word = R_kaa
    /\ last.result # {}
    /\ \E id \in last.result :
           {R_ka, <<107, 97, 97, 97>>} \cap MetaAt(engine.trie_builder.metadata_store, id).variants # {}

-----------------------------------------------------------------------------
(* C30 *)

\* the WordId of the word of the i-th confirmation
ConfirmedId(i) == find_word_id_by_nepali(engine.trie_builder.metadata_store, log[i][2])[1]

\* how many times word b was confirmed immediately after word a
TimesConfirmedAfter(a, b) ==
    Cardinality({ i \in 1..(Len(log) - 1) : ConfirmedId(i) = a /\ ConfirmedId(i + 1) = b })

WordIds == 0..(Len(engine.trie_builder.metadata_store) - 1)

\* C30: starting from an empty engine, after any sequence of confirmations
\* bigrams[(a, b)] equals the number of times word b was confirmed
\* immediately after word a (a = b included), so the counts sum to the number
\* of confirmations minus one, and a pair never confirmed consecutively has
\* no entry
C30_BigramsCountConsecutiveConfirmations ==
    /\ DOMAIN engine.context_model.bigrams
           = { p \in WordIds \X WordIds : TimesConfirmedAfter(p[1], p[2]) > 0 }
    /\ \A p \in DOMAIN engine.context_model.bigrams :
           engine.context_model.bigrams[p] = TimesConfirmedAfter(p[1], p[2])

-----------------------------------------------------------------------------
(* C31 *)

\* the WordIds of the last k confirmations, in confirmation order
LastConfirmedIds(k) ==
    [i \in 1..k |-> ConfirmedId(Len(log) - k + i)]

\* the smaller of two numbers
Smaller(a, b) == IF a < b THEN a ELSE b

\* C31: after any sequence of n confirmations the context window holds
\* exactly the last min(n, W) confirmed WordIds in confirmation order, with
\* W = 3, and it never holds more than W entries
C31_WindowHoldsLastConfirmed ==
    /\ Len(engine.context_model.history) <= CONTEXT_WINDOW_SIZE
    /\ engine.context_model.history
           = LastConfirmedIds(Smaller(Len(log), CONTEXT_WINDOW_SIZE))

\* what holds: the window never holds more than W entries, and every entry is
\* the WordId of a confirmed word
WindowBounded ==
    /\ Len(engine.context_model.history) <= CONTEXT_WINDOW_SIZE
    /\ \A i \in 1..Len(engine.context_model.history) :
           engine.context_model.history[i] \in WordIds

(* C32 *)
\* the step is a confirmation of a pair that the log already holds
Reconfirms == 
    /\ Len(log') = Len(log) + 1
    /\ \E i \in 1..Len(log) : log[i] = log'[Len(log')]

\* the step adds no trie node, no metadata entry, no variant and no SymSpell
\* entry, and raises the frequency of the confirmed word alone, by 1
AddsNothingButFrequency ==
    LET before == engine.trie_builder
        after == engine'.trie_builder
        id == find_word_id_by_nepali(before.metadata_store, log'[Len(log')][2])
    IN /\ Len(after.nodes) = Len(before.nodes)
       /\ Len(after.metadata_store) = Len(before.metadata_store)
       /\ engine'.symspell = engine.symspell
       /\ id # None
       /\ \A w \in 0..(Len(before.metadata_store) - 1) :
              /\ MetaAt(after.metadata_store, w).variants
                     = MetaAt(before.metadata_store, w).variants
              /\ MetaAt(after.metadata_store, w).frequency
                     = MetaAt(before.metadata_store, w).frequency
                         + (IF w = id[1] THEN 1 ELSE 0)

\* C32: confirming a (roman, devanagari) pair that was already confirmed before adds no trie node, no metadata entry, no variant and no SymSpell entry; it only raises that word's frequency by 1
C32_ReconfirmAddsNothing == [][Reconfirms => AddsNothingButFrequency]_vars

\* what holds: a pair whose spelling already has its path in the trie is
\* re-confirmed without a new node, entry, variant or index entry
ReconfirmOfStoredPathAddsNothing ==
    [][(Reconfirms /\ Navigate(engine.trie_builder.nodes, 0, log'[Len(log')][1]) # None)
           => AddsNothingButFrequency]_vars

(* C33 *)
\* C33: get_top_k_suggestions(prefix, K) returns each WordId at most once, also when several Roman spellings of the same word lie below prefix
C33_TopKWordIdsDistinct ==
    (last.op = "top_k" /\ ~last.panic)
        => \A i, j \in 1..Len(last.trie) :
               last.trie[i][1] = last.trie[j][1] => i = j

\* what holds: the entries returned are terminals below the prefix, at most
\* K of them
TopKAtMostK ==
    (last.op = "top_k" /\ ~last.panic) => Len(last.trie) <= last.count

(* C34 *)
\* the WordIds stored in trie terminals, SymSpell buckets, the context window
\* and the bigram keys
TerminalIds ==
    { engine.trie_builder.nodes[n].word_id[1] :
        n \in { m \in 1..Len(engine.trie_builder.nodes) :
                  engine.trie_builder.nodes[m].word_id # None } }
BucketIds == UNION { engine.symspell.deletes[s] : s \in DOMAIN engine.symspell.deletes }
WindowIds ==
    { engine.context_model.history[i] : i \in 1..Len(engine.context_model.history) }
BigramIds == UNION { {key[1], key[2]} : key \in DOMAIN engine.context_model.bigrams }

\* C34: after any sequence of userConfirms calls, every WordId stored in a trie terminal, in a SymSpell bucket, in the context window or in a bigram key is a valid index of the metadata store
C34_StoredWordIdsAreValid ==
    TerminalIds \cup BucketIds \cup WindowIds \cup BigramIds \subseteq WordIds

\* two words are stored and the second one is in a terminal, a bucket, the
\* window and a bigram key
C34_Witness ==
    /\ Len(engine.trie_builder.metadata_store) = 2
    /\ 1 \in TerminalIds
    /\ 1 \in BucketIds
    /\ 1 \in WindowIds
    /\ 1 \in BigramIds

(* C35 *)
\* the step is a Space, Enter or Tab event on a non-empty preedit
CommitKeyOnPreedit ==
    /\ last'.op = "key_event"
    /\ last'.count \in {32, 65293, 65289}
    /\ host.running
    /\ host.preedit # <<>>

\* the first entry of get_suggestions(preedit, 1), else the first generated
\* candidate, else the empty string: the texts the host may take
TextsToTake ==
    UNION { IF s.result # <<>> THEN { s.result[1][1] }
            ELSE { IF l = <<>> THEN <<>> ELSE l[1]
                   : l \in generate_candidates(host.preedit).lists }
            : s \in { o \in get_suggestions(engine, host.preedit, 1) : ~o.panic } }

\* the host emits the text it took and confirms (preedit, text) with it, or
\* took the empty string and does neither
CommitsAndConfirmsTheText ==
    /\ last'.nepali \in TextsToTake
    /\ IF last'.nepali # <<>>
       THEN /\ host'.stdout = Append(host.stdout, last'.nepali)
            /\ log' = Append(log, <<host.preedit, last'.nepali>>)
       ELSE /\ host'.stdout = host.stdout
            /\ log' = log

\* C35: on Space, Enter or Tab with a non-empty preedit the host takes the first entry of getSuggestions(preedit, 1), else the first generated candidate, else the empty string; if that text is non-empty it emits it as commit text and calls userConfirms(preedit, commit) with exactly that text, and in every case the preedit is empty after the event
C35_CommitKeyConfirmsAndClears ==
    [][CommitKeyOnPreedit => (CommitsAndConfirmsTheText /\ host'.preedit = <<>>)]_vars

\* what holds: the same when the engine does not panic and stdout takes the
\* line
ReturningCommitKeyConfirmsAndClears ==
    [][(CommitKeyOnPreedit /\ ~last'.panic /\ ~last'.err)
           => (CommitsAndConfirmsTheText /\ host'.preedit = <<>>)]_vars
=============================================================================
